---- MODULE Spec2Model ----
(***************************************************************************)
(* Verification model of fluxemu: the cooperative scheduler                *)
(* (lib/runtime/src/scheduler/mod.rs) and the MOS 6502 micro-operation     *)
(* engine (definition/mos6502/src/lib.rs).                                 *)
(*                                                                         *)
(* Virtual time (Period, a 64.64 fixed-point value) is counted in whole    *)
(* ticks; all periods, deltas and event times are multiples of one tick.   *)
(***************************************************************************)
EXTENDS Integers, Sequences, FiniteSets, TLC

(***************************************************************************)
(* Bounds of the scheduler model                                           *)
(***************************************************************************)
MaxTime == 4

MaxLimit == 1

MaxPushes == 1

Components == {"cpu", "apu"}

\* Option::None for Option<Period> / Option<u64>
None == 0

VARIABLES
    current_driven_time,        \* Scheduler.current_driven_time (the value under the mutex)
    lockHeld,                   \* TRUE while a MutexGuard of current_driven_time is alive
    driven,                     \* Scheduler.driven, as the sequence HashMap::values() iterates
    registered,                 \* the components in the order register_driven_component was called
    updated_timestamp,          \* per component: the time it has been synchronized to
    last_attempted_allocation,  \* per component: Option<Period>
    event_queue,                \* EventManager: trigger times of the pending events
    interrupt,                  \* PreemptionSignal
    pushes,                     \* number of events pushed so far
    pc,                         \* position of the thread inside Scheduler::run
    cur,                        \* index in driven of the component run is at
    target_timestamp,           \* local current_driven_time of run / ctx.target_timestamp
    iter,                       \* the live QuantaIterator: [period, budget]
    obs,                        \* what is observed of the current run and synchronize call
    cpu,                        \* the Mos6502 struct: registers, queue, bus, scratch, config
    mem,                        \* contents of the address space the CPU is assigned
    rdy,                        \* RdyFlag
    nmi,                        \* NmiFlag: [current_state, falling_edge_occured]
    storing,                    \* TRUE while a NmiFlag::store is between its swap and its store
    irq,                        \* IrqFlag: the stored line level
    cpuObs,                     \* what is observed of the CPU: executed cycles, last quantum
    computed_table,             \* MemoryMappingTable.computed_table: one Option<Page> per page
    iterator,                   \* the live OverlappingMappingsIter
    iterObs,                    \* what next() has returned so far
    cache,                      \* the caller's AddressSpaceCache: the last range and target
    readObs,                    \* the last read: its address, its result, the uncached result
    audio,                      \* the Chip8Audio struct, and the quanta it has been given
    snapObs,                    \* the last load_snapshot call and what it returned
    stepObs                     \* the phase-2 step applied on its own, and the CPU before it

schedVars == <<current_driven_time, lockHeld, driven, registered, updated_timestamp,
               last_attempted_allocation, event_queue, interrupt, pushes, pc, cur,
               target_timestamp, iter, obs>>

cpuVars == <<cpu, mem, rdy, nmi, storing, irq, cpuObs>>

memVars == <<computed_table, iterator, iterObs, cache, readObs>>

\* the state of the components that are modelled on their own
audioVars == <<audio, snapObs>>

unitVars == <<memVars, audioVars, stepObs>>

vars == <<schedVars, cpuVars, unitVars>>

(***************************************************************************)
(* Helpers                                                                 *)
(***************************************************************************)
Min(a, b) == IF a <= b THEN a ELSE b

SetMin(S) == CHOOSE m \in S : \A o \in S : m <= o

Range(s) == {s[i] : i \in 1..Len(s)}

\* every ordering of the elements of a finite set
Orderings(S) == {s \in [1..Cardinality(S) -> S] : \A i, j \in 1..Cardinality(S) : i # j => s[i] # s[j]}

\* Period::saturating_sub
saturating_sub(a, b) == IF a >= b THEN a - b ELSE 0

\* the period each component passes to allocate (frequency.recip())
PeriodOf(c) == IF c = "cpu" THEN 1 ELSE 2

\* nothing observed yet
NoObs ==
    [runs |-> FALSE, preNow |-> 0, delta |-> 0, invoked |-> <<>>,
     before |-> [c \in Components |-> 0],
     full |-> [c \in Components |-> FALSE], calm |-> TRUE,
     comp |-> "cpu", start |-> 0, stop |-> 0, limit |-> None, taken |-> 0,
     last |-> 0, preempted |-> FALSE, quiet |-> TRUE, finished |-> FALSE]

(***************************************************************************)
(* EventManager (scheduler/event.rs)                                       *)
(***************************************************************************)
\* EventManager::next_event: the soonest trigger time, if any (peek only)
next_event == IF event_queue = {} THEN None ELSE SetMin(event_queue)

\* PreemptionSignal::needs_preemption: reads the signal and clears it
needs_preemption == interrupt

\* EventManager::push: a sooner event than next_event() sets the preemption signal
PushEvent(t) ==
    /\ pushes < MaxPushes
    /\ t \notin event_queue
    /\ event_queue' = event_queue \cup {t}
    /\ interrupt' = (interrupt \/ event_queue = {} \/ t < next_event)
    /\ pushes' = pushes + 1
    /\ obs' = IF pc = "idle" THEN obs ELSE [obs EXCEPT !.quiet = FALSE, !.calm = FALSE]
    /\ UNCHANGED <<cpuVars, unitVars>>
    /\ UNCHANGED <<current_driven_time, lockHeld, driven, registered, updated_timestamp,
                   last_attempted_allocation, pc, cur, target_timestamp, iter>>

\* EventManager::pop_due(now): the events with trigger_at <= now leave the queue
PopDue ==
    /\ pc = "idle"
    /\ \E t \in event_queue : t <= current_driven_time
    /\ event_queue' = {t \in event_queue : t > current_driven_time}
    /\ UNCHANGED <<cpuVars, unitVars>>
    /\ UNCHANGED <<current_driven_time, lockHeld, driven, registered, updated_timestamp,
                   last_attempted_allocation, interrupt, pushes, pc, cur, target_timestamp,
                   iter, obs>>

(***************************************************************************)
(* Scheduler                                                               *)
(***************************************************************************)
\* Scheduler::now: takes the mutex, reads the time, drops the guard; it returns
\* current_driven_time and changes nothing
Now ==
    /\ ~lockHeld
    /\ UNCHANGED vars

\* HashMap::insert: values() afterwards iterates in hash order, any order of the keys
HashMapOrder(keys) == Orderings(keys)

\* Scheduler::register_driven_component (needs &mut self: the machine builder
\* calls it, before the scheduler is shared and run)
register_driven_component(c) ==
    /\ pc = "idle"
    /\ ~obs.runs
    /\ c \notin Range(registered)
    /\ registered' = Append(registered, c)
    /\ driven' \in HashMapOrder(Range(registered) \cup {c})
    /\ UNCHANGED <<cpuVars, unitVars>>
    /\ UNCHANGED <<current_driven_time, lockHeld, updated_timestamp,
                   last_attempted_allocation, event_queue, interrupt, pushes, pc, cur,
                   target_timestamp, iter, obs>>

\* *current_driven_time_guard += allocated_time
AdvanceMut(time, allocated_time) == allocated_time

Advance(time, allocated_time) == time + allocated_time

\* Scheduler::run, up to the loop over the driven components: takes the lock
\* and adds allocated_time; the guard stays alive until run returns
run(allocated_time) ==
    /\ pc = "idle"
    /\ ~lockHeld
    /\ current_driven_time + allocated_time <= MaxTime
    /\ lockHeld' = TRUE
    /\ current_driven_time' = Advance(current_driven_time, allocated_time)
    /\ target_timestamp' = current_driven_time'
    /\ cur' = 1
    /\ pc' = "loop"
    /\ obs' = [obs EXCEPT !.runs = TRUE, !.preNow = current_driven_time,
                          !.delta = allocated_time, !.invoked = <<>>,
                          !.before = updated_timestamp,
                          !.full = [c \in Components |-> FALSE],
                          !.calm = (event_queue = {}),
                          !.finished = FALSE]
    /\ UNCHANGED <<cpuVars, unitVars>>
    /\ UNCHANGED <<driven, registered, updated_timestamp, last_attempted_allocation,
                   event_queue, interrupt, pushes, iter>>

\* Scheduler::run, after the last driven component: run returns, the guard is dropped
runReturn ==
    /\ pc = "loop"
    /\ cur > Len(driven)
    /\ pc' = "idle"
    /\ lockHeld' = FALSE
    /\ obs' = [NoObs EXCEPT !.runs = TRUE, !.preNow = obs.preNow, !.delta = obs.delta]
    /\ UNCHANGED <<cpuVars, unitVars>>
    /\ UNCHANGED <<current_driven_time, driven, registered, updated_timestamp,
                   last_attempted_allocation, event_queue, interrupt, pushes, cur,
                   target_timestamp, iter>>

(***************************************************************************)
(* SynchronizationContext and QuantaIterator                               *)
(***************************************************************************)
\* stop_time = target_timestamp.min(next_event) when there is a next event
StopTimeNoEvent == target_timestamp

StopTime == IF next_event # None THEN Min(target_timestamp, next_event) ELSE target_timestamp

\* (stop_time.saturating_sub(updated_timestamp) / period).floor().to_num::<u64>()
BudgetCeil(stop_time, updated, period) == (saturating_sub(stop_time, updated) + period - 1) \div period

Budget(stop_time, updated, period) == saturating_sub(stop_time, updated) \div period

\* budget = budget.min(execution_limit) when a limit is given
ClampNever(budget, execution_limit) == budget

Clamp(budget, execution_limit) ==
    IF execution_limit # None THEN Min(budget, execution_limit) ELSE budget

\* ComponentHandle::interact_mut(target, ..) brings the component up to target:
\* its synchronize(ctx) runs, which calls ctx.allocate(period, execution_limit)
\* and takes timestamps until the iterator ends (Mos6502::synchronize and
\* Chip8Audio::synchronize are both one for loop over the iterator)
allocate(execution_limit) ==
    /\ pc = "loop"
    /\ cur <= Len(driven)
    /\ LET c == driven[cur]
           period == PeriodOf(c)
       IN  /\ last_attempted_allocation' = [last_attempted_allocation EXCEPT ![c] = period]
           /\ iter' = [period |-> period,
                       budget |-> Clamp(Budget(StopTime, updated_timestamp[c], period),
                                        execution_limit)]
           /\ obs' = [obs EXCEPT !.invoked = Append(obs.invoked, c), !.comp = c,
                                 !.start = updated_timestamp[c], !.stop = StopTime,
                                 !.limit = execution_limit, !.taken = 0, !.last = 0,
                                 !.preempted = FALSE, !.quiet = TRUE,
                                 !.finished = FALSE]
    /\ pc' = "iter"
    /\ UNCHANGED <<cpuVars, unitVars>>
    /\ UNCHANGED <<current_driven_time, lockHeld, driven, registered, updated_timestamp,
                   event_queue, interrupt, pushes, cur, target_timestamp>>

\* self.budget = self.budget.min(new_budget)
ShortenMut(budget, new_budget) == new_budget

Shorten(budget, new_budget) == Min(budget, new_budget)

\* QuantaIterator::next, one turn of the while loop: the signal was set, it is
\* taken, next_event is read again and the budget shortened
nextPreempted ==
    /\ pc = "iter"
    /\ needs_preemption
    /\ interrupt' = FALSE
    /\ iter' = [iter EXCEPT !.budget =
                   Shorten(iter.budget,
                           Budget(StopTime, updated_timestamp[driven[cur]], iter.period))]
    /\ obs' = [obs EXCEPT !.preempted = TRUE]
    /\ UNCHANGED <<cpuVars, unitVars>>
    /\ UNCHANGED <<current_driven_time, lockHeld, driven, registered, updated_timestamp,
                   last_attempted_allocation, event_queue, pushes, pc, cur,
                   target_timestamp>>

\* self.budget -= 1
SpendMut(budget) == budget

Spend(budget) == budget - 1

\* QuantaIterator::next past the loop with budget left: one timestamp is
\* returned and the component executes that quantum
nextSome ==
    /\ pc = "iter"
    /\ ~needs_preemption
    /\ iter.budget # 0
    /\ updated_timestamp[driven[cur]] + iter.period <= MaxTime + 1
    /\ LET next_timestamp == updated_timestamp[driven[cur]] + iter.period
       IN  /\ updated_timestamp' = [updated_timestamp EXCEPT ![driven[cur]] = next_timestamp]
           /\ obs' = [obs EXCEPT !.taken = obs.taken + 1, !.last = next_timestamp]
    /\ iter' = [iter EXCEPT !.budget = Spend(iter.budget)]
    /\ UNCHANGED <<cpuVars, unitVars>>
    /\ UNCHANGED <<current_driven_time, lockHeld, driven, registered,
                   last_attempted_allocation, event_queue, interrupt, pushes, pc, cur,
                   target_timestamp>>

\* for driven in self.driven.values(): on to the next component
NextDrivenSkip(i) == i + 2

NextDriven(i) == i + 1

\* QuantaIterator::next past the loop with budget == 0: None, the component's
\* for loop ends, synchronize returns and run goes on to the next component
nextNone ==
    /\ pc = "iter"
    /\ ~needs_preemption
    /\ iter.budget = 0
    /\ pc' = "loop"
    /\ cur' = NextDriven(cur)
    /\ obs' = [obs EXCEPT !.finished = TRUE,
                          !.full[driven[cur]] = (obs.limit = None)]
    /\ UNCHANGED <<cpuVars, unitVars>>
    /\ UNCHANGED <<current_driven_time, lockHeld, driven, registered, updated_timestamp,
                   last_attempted_allocation, event_queue, interrupt, pushes,
                   target_timestamp, iter>>

(***************************************************************************)
(* MOS 6502: bytes, words and the flag register                            *)
(***************************************************************************)
\* bound: the CPU is given at most this many executed cycles
MaxCycles == 22

\* falling edges of the NMI line in one behaviour
MaxEdges == 2

RESET_VECTOR == 65532

NMI_VECTOR == 65530

IRQ_VECTOR == 65534

STACK_BASE_ADDRESS == 256

\* capacity of Cycle.phi2 (ArrayVec<Phi2, 3>)
Phi2Capacity == 3

\* capacity of Mos6502.effective_address (ArrayVec<u8, 2>)
EffectiveAddressCapacity == 2

Kinds == {"Mos6502", "Mos6507", "Ricoh2A0x", "Wdc65C02"}

\* every kind takes interrupts
supports_interrupts_always(kind) == TRUE

\* Mos6502Kind::supports_interrupts
supports_interrupts(kind) == kind # "Mos6507"

\* u16::to_le_bytes
Lo(word) == word % 256

Hi(word) == word \div 256

\* u16::from_le_bytes
Word(low, high) == high * 256 + low

\* u8::wrapping_add / u8::wrapping_sub of one
WrapByte(n) == n % 256

\* u16::wrapping_add
WrapWord(n) == n % 65536

BitSet(byte, n) == (byte \div (2 ^ n)) % 2 = 1

BitIf(b, n) == IF b THEN 2 ^ n ELSE 0

\* FlagRegister::default
NoFlags ==
    [negative |-> FALSE, overflow |-> FALSE, decimal |-> FALSE,
     interrupt_disable |-> FALSE, zero |-> FALSE, carry |-> FALSE]

\* FlagRegister::to_byte
to_byte(flags, break_) ==
    BitIf(flags.negative, 7) + BitIf(flags.overflow, 6) + BitIf(TRUE, 5) + BitIf(break_, 4)
        + BitIf(flags.decimal, 3) + BitIf(flags.interrupt_disable, 2) + BitIf(flags.zero, 1)
        + BitIf(flags.carry, 0)

\* FlagRegister::from_byte
from_byte(byte) ==
    [negative |-> BitSet(byte, 7), overflow |-> BitSet(byte, 6), decimal |-> BitSet(byte, 3),
     interrupt_disable |-> BitSet(byte, 2), zero |-> BitSet(byte, 1), carry |-> BitSet(byte, 0)]

(***************************************************************************)
(* Cycles and their steps (cycle.rs)                                       *)
(***************************************************************************)
\* Cycle::new
Cycle(bus_mode, phi1, phi2) == [bus_mode |-> bus_mode, phi1 |-> phi1, phi2 |-> phi2]

NoPhi1 == [t |-> "None"]

\* Phi1::SetAddressBus with its SetAddressBusSource
SetAddressBus(source) == [t |-> "SetAddressBus", source |-> source]

FromInstructionPointer == [t |-> "InstructionPointer"]

FromEffectiveAddress == [t |-> "EffectiveAddress"]

FromConstant(value) == [t |-> "Constant", value |-> value]

FromStack == [t |-> "Stack"]

\* Cycle::dummy
dummy == Cycle("Read", NoPhi1, <<>>)

\* Phi2::Move with a MoveSource and a MoveDestination
Move(source, destination) == [op |-> "Move", source |-> source, destination |-> destination]

SrcData == [t |-> "Data"]

SrcConstant(value) == [t |-> "Constant", value |-> value]

SrcFlags(break_) == [t |-> "Flags", break_ |-> break_]

SrcInstructionPointer(offset) == [t |-> "InstructionPointer", offset |-> offset]

DstRegister(register, update_nz) ==
    [t |-> "Register", register |-> register, update_nz |-> update_nz]

DstStack == [t |-> "Stack"]

DstEffectiveAddress == [t |-> "EffectiveAddress"]

DstOpcode == [t |-> "Opcode"]

DstData == [t |-> "Data"]

DstFlags == [t |-> "Flags"]

IncrementStack(subtract) == [op |-> "IncrementStack", subtract |-> subtract]

IncrementInstructionPointer == [op |-> "IncrementInstructionPointer"]

LoadInstructionPointerFromEffectiveAddress ==
    [op |-> "LoadInstructionPointerFromEffectiveAddress"]

\* MoveSource::Register
SrcRegister(register) == [t |-> "Register", register |-> register]

SrcOperand == [t |-> "Operand"]

DstOperand == [t |-> "Operand"]

\* Phi2::SetFlag
SetFlag(flag, value) == [op |-> "SetFlag", flag |-> flag, value |-> value]

\* AddToPointerLikeRegisterSource
AddRegister(register) == [t |-> "Register", register |-> register]

AddConstant(value) == [t |-> "Constant", value |-> value]

AddOperand == [t |-> "Operand"]

\* Phi2::AddToPointerLikeRegister; destination is a PointerLikeRegister
AddToPointerLikeRegister(insert, interpretation, source, destination) ==
    [op |-> "AddToPointerLikeRegister",
     insert_adjustment_cycle_upon_carry |-> insert,
     interpretation |-> interpretation, source |-> source, destination |-> destination]

\* Phi2::AddCarryToPointerLikeRegister
AddCarryToPointerLikeRegister(register, carry) ==
    [op |-> "AddCarryToPointerLikeRegister", register |-> register, carry |-> carry]

\* Phi2::Increment on IncrementOperand x, y or operand
Increment(operand, subtract) == [op |-> "Increment", operand |-> operand, subtract |-> subtract]

\* Phi2::Shift
Shift(direction, rotate, a_is_operand) ==
    [op |-> "Shift", direction |-> direction, rotate |-> rotate, a_is_operand |-> a_is_operand]

\* Phi2::Add
Add(invert_operand) == [op |-> "Add", invert_operand |-> invert_operand]

\* Phi2::Compare, Phi2::And, Phi2::Or, Phi2::Xor
Compare(register) == [op |-> "Compare", register |-> register]

And(writeback) == [op |-> "And", writeback |-> writeback]

Or == [op |-> "Or"]

Xor == [op |-> "Xor"]

\* MoveSource::Stack
SrcStack == [t |-> "Stack"]

\* the opcode fetch synchronize makes up when the queue is empty
FetchCycle ==
    Cycle("Read", SetAddressBus(FromInstructionPointer),
          <<IncrementInstructionPointer, Move(SrcData, DstOpcode)>>)

\* the flags reset installs: I set, all others clear
ResetFlags == [NoFlags EXCEPT !.interrupt_disable = TRUE]

\* the stack value reset installs
ResetStack == 253

\* the reset sequence with a third dummy cycle in place of the stack cycle
ResetSequenceNoStack ==
    <<dummy,
      dummy,
      dummy,
      Cycle("Read", NoPhi1, <<Move(SrcConstant(to_byte(ResetFlags, FALSE)), DstFlags)>>),
      Cycle("Read", SetAddressBus(FromConstant(RESET_VECTOR)),
            <<Move(SrcData, DstEffectiveAddress)>>),
      Cycle("Read", SetAddressBus(FromConstant(RESET_VECTOR + 1)),
            <<Move(SrcData, DstEffectiveAddress),
              LoadInstructionPointerFromEffectiveAddress>>)>>

\* the cycles Mos6502::reset installs
ResetSequence ==
    <<dummy,
      dummy,
      Cycle("Read", NoPhi1, <<Move(SrcConstant(ResetStack), DstStack)>>),
      Cycle("Read", NoPhi1, <<Move(SrcConstant(to_byte(ResetFlags, FALSE)), DstFlags)>>),
      Cycle("Read", SetAddressBus(FromConstant(RESET_VECTOR)),
            <<Move(SrcData, DstEffectiveAddress)>>),
      Cycle("Read", SetAddressBus(FromConstant(RESET_VECTOR + 1)),
            <<Move(SrcData, DstEffectiveAddress),
              LoadInstructionPointerFromEffectiveAddress>>)>>

\* the cycles the interrupt poll appends for a vector
InterruptSequence(vector) ==
    <<Cycle("Read", SetAddressBus(FromInstructionPointer), <<>>),
      Cycle("Write", SetAddressBus(FromStack),
            <<Move(SrcInstructionPointer(1), DstData), IncrementStack(TRUE)>>),
      Cycle("Write", SetAddressBus(FromStack),
            <<Move(SrcInstructionPointer(0), DstData), IncrementStack(TRUE)>>),
      Cycle("Write", SetAddressBus(FromStack),
            <<Move(SrcFlags(FALSE), DstData), IncrementStack(TRUE)>>),
      Cycle("Read", SetAddressBus(FromConstant(vector)),
            <<Move(SrcData, DstEffectiveAddress)>>),
      Cycle("Read", SetAddressBus(FromConstant(vector + 1)),
            <<Move(SrcData, DstEffectiveAddress),
              LoadInstructionPointerFromEffectiveAddress>>)>>

(***************************************************************************)
(* Decoding and instruction expansion (decoder.rs, instruction.rs)          *)
(***************************************************************************)
NoMode == "None"

\* the opcode bytes of the programs below, decoded by the published 6502 matrix
Decode(byte, kind) ==
    CASE byte = 0   -> [opcode |-> "Brk", addressing_mode |-> NoMode]
      [] byte = 2   -> IF kind = "Wdc65C02"
                       THEN [opcode |-> "Nop", addressing_mode |-> "Immediate"]
                       ELSE [opcode |-> "Jam", addressing_mode |-> NoMode]
      [] byte = 14  -> [opcode |-> "Asl", addressing_mode |-> "Absolute"]
      [] byte = 32  -> [opcode |-> "Jsr", addressing_mode |-> "Absolute"]
      [] byte = 46  -> [opcode |-> "Rol", addressing_mode |-> "Absolute"]
      [] byte = 64  -> [opcode |-> "Rti", addressing_mode |-> NoMode]
      [] byte = 76  -> [opcode |-> "Jmp", addressing_mode |-> "Absolute"]
      [] byte = 78  -> [opcode |-> "Lsr", addressing_mode |-> "Absolute"]
      [] byte = 96  -> [opcode |-> "Rts", addressing_mode |-> NoMode]
      [] byte = 88  -> [opcode |-> "Cli", addressing_mode |-> NoMode]
      [] byte = 108 -> [opcode |-> "Jmp", addressing_mode |-> "AbsoluteIndirect"]
      [] byte = 110 -> [opcode |-> "Ror", addressing_mode |-> "Absolute"]
      [] byte = 141 -> [opcode |-> "Sta", addressing_mode |-> "Absolute"]
      [] byte = 157 -> [opcode |-> "Sta", addressing_mode |-> "XIndexedAbsolute"]
      [] byte = 162 -> [opcode |-> "Ldx", addressing_mode |-> "Immediate"]
      [] byte = 169 -> [opcode |-> "Lda", addressing_mode |-> "Immediate"]
      [] byte = 173 -> [opcode |-> "Lda", addressing_mode |-> "Absolute"]
      [] byte = 189 -> [opcode |-> "Lda", addressing_mode |-> "XIndexedAbsolute"]
      [] byte = 206 -> [opcode |-> "Dec", addressing_mode |-> "Absolute"]
      [] byte = 208 -> [opcode |-> "Bne", addressing_mode |-> "Relative"]
      [] byte = 234 -> [opcode |-> "Nop", addressing_mode |-> NoMode]
      [] byte = 238 -> [opcode |-> "Inc", addressing_mode |-> "Absolute"]
      [] byte = 240 -> [opcode |-> "Beq", addressing_mode |-> "Relative"]

\* a panic (todo!, unreachable!, a full ArrayVec) ends the emulation
Crash(c) == [c EXCEPT !.crashed = TRUE]

\* the read of an operand byte at the instruction pointer into effective_address
OperandToEffectiveAddress ==
    Cycle("Read", SetAddressBus(FromInstructionPointer),
          <<IncrementInstructionPointer, Move(SrcData, DstEffectiveAddress)>>)

\* every kind with the errata
errata_on_every_kind(kind) == TRUE

\* Mos6502Kind::has_absolute_indirect_page_wrap_errata
has_absolute_indirect_page_wrap_errata(kind) == kind \in {"Mos6502", "Mos6507", "Ricoh2A0x"}

\* register_indexed_absolute: the index is added on the second operand cycle
register_indexed_absolute(register) ==
    <<OperandToEffectiveAddress,
      Cycle("Read", SetAddressBus(FromInstructionPointer),
            <<IncrementInstructionPointer, Move(SrcData, DstEffectiveAddress),
              AddToPointerLikeRegister(TRUE, "Unsigned", AddRegister(register),
                                       "EffectiveAddress")>>)>>

\* the cycles of AddressingMode::AbsoluteIndirect
AbsoluteIndirectPrelude(kind) ==
    <<OperandToEffectiveAddress,
      OperandToEffectiveAddress,
      Cycle("Read", SetAddressBus(FromEffectiveAddress),
            <<Move(SrcData, DstEffectiveAddress),
              AddToPointerLikeRegister(~has_absolute_indirect_page_wrap_errata(kind),
                                       "Unsigned", AddConstant(1), "AddressBus")>>),
      Cycle("Read", NoPhi1, <<Move(SrcData, DstEffectiveAddress)>>)>>

\* register_indexed_zero_page: the index is added on a cycle of its own
register_indexed_zero_page(register) ==
    <<OperandToEffectiveAddress,
      Cycle("Read", NoPhi1,
            <<AddToPointerLikeRegister(FALSE, "Unsigned", AddRegister(register),
                                       "EffectiveAddress")>>)>>

\* the cycles of AddressingMode::XIndexedZeroPageIndirect
XIndexedZeroPageIndirectPrelude ==
    <<OperandToEffectiveAddress,
      Cycle("Read", SetAddressBus(FromEffectiveAddress),
            <<AddToPointerLikeRegister(FALSE, "Unsigned", AddRegister("x"), "AddressBus")>>),
      Cycle("Read", NoPhi1,
            <<Move(SrcData, DstEffectiveAddress),
              AddToPointerLikeRegister(FALSE, "Unsigned", AddConstant(1), "AddressBus")>>),
      Cycle("Read", NoPhi1, <<Move(SrcData, DstEffectiveAddress)>>)>>

\* the cycles of AddressingMode::ZeroPageIndirectYIndexed
ZeroPageIndirectYIndexedPrelude ==
    <<OperandToEffectiveAddress,
      Cycle("Read", SetAddressBus(FromEffectiveAddress),
            <<Move(SrcData, DstEffectiveAddress),
              AddToPointerLikeRegister(FALSE, "Unsigned", AddConstant(1), "AddressBus")>>),
      Cycle("Read", NoPhi1,
            <<Move(SrcData, DstEffectiveAddress),
              AddToPointerLikeRegister(TRUE, "Unsigned", AddRegister("y"),
                                       "EffectiveAddress")>>)>>

\* push_steps_for_instruction, first half: the cycles of the addressing mode
Prelude(addressing_mode, kind) ==
    CASE addressing_mode = "Absolute" ->
             <<OperandToEffectiveAddress, OperandToEffectiveAddress>>
      [] addressing_mode \in {"Immediate", "Relative"} ->
             <<Cycle("Read", SetAddressBus(FromInstructionPointer),
                     <<IncrementInstructionPointer>>)>>
      [] addressing_mode = "XIndexedAbsolute" -> register_indexed_absolute("x")
      [] addressing_mode = "YIndexedAbsolute" -> register_indexed_absolute("y")
      [] addressing_mode = "XIndexedZeroPageIndirect" -> XIndexedZeroPageIndirectPrelude
      [] addressing_mode = "ZeroPageIndirectYIndexed" -> ZeroPageIndirectYIndexedPrelude
      [] addressing_mode = "XIndexedZeroPage" -> register_indexed_zero_page("x")
      [] addressing_mode = "YIndexedZeroPage" -> register_indexed_zero_page("y")
      [] addressing_mode = "ZeroPage" -> <<OperandToEffectiveAddress>>
      [] addressing_mode = "AbsoluteIndirect" -> AbsoluteIndirectPrelude(kind)
      [] addressing_mode \in {"Accumulator", NoMode} -> <<dummy>>

\* instruction_queue.iter_mut().last().unwrap().phi2.extend(steps)
LeechOntoLast(c, steps) ==
    LET queue == c.instruction_queue
        last == queue[Len(queue)]
    IN  IF Len(last.phi2) + Len(steps) > Phi2Capacity
        THEN Crash(c)
        ELSE [c EXCEPT !.instruction_queue[Len(queue)].phi2 = last.phi2 \o steps]

\* every read tail leeched onto the last cycle of the addressing mode
patch_read_always_leeched(c, addressing_mode, steps) == LeechOntoLast(c, steps)

\* patch_read_maybe_effective_address_dependent
patch_read_maybe_effective_address_dependent(c, addressing_mode, steps) ==
    IF addressing_mode \in {NoMode, "Accumulator", "Immediate", "Relative"}
    THEN LeechOntoLast(c, steps)
    ELSE [c EXCEPT !.instruction_queue =
             Append(@, Cycle("Read", SetAddressBus(FromEffectiveAddress), steps))]

\* the tail of a store as a read cycle: the bus is never driven
insert_read_effective_address_dependent(c, addressing_mode, steps) ==
    [c EXCEPT !.instruction_queue =
        Append(@, Cycle("Read", SetAddressBus(FromEffectiveAddress), steps))]

\* insert_write_effective_address_dependent
insert_write_effective_address_dependent(c, addressing_mode, steps) ==
    IF addressing_mode \in {NoMode, "Accumulator", "Immediate", "Relative"}
    THEN Crash(c)
    ELSE [c EXCEPT !.instruction_queue =
             Append(@, Cycle("Write", SetAddressBus(FromEffectiveAddress), steps))]

\* a read-modify-write tail without the write of the unmodified value
insert_rmw_single_write(c, steps) ==
    [c EXCEPT !.instruction_queue =
        @ \o <<Cycle("Read", SetAddressBus(FromEffectiveAddress),
                     <<Move(SrcData, DstOperand)>>),
               Cycle("Read", NoPhi1, <<>>),
               Cycle("Write", NoPhi1, steps \o <<Move(SrcOperand, DstData)>>)>>]

\* insert_rmw_effective_address_dependent: read, write back, write modified
insert_rmw_effective_address_dependent(c, steps) ==
    IF Len(steps) + 1 > Phi2Capacity
    THEN Crash(c)
    ELSE [c EXCEPT !.instruction_queue =
             @ \o <<Cycle("Read", SetAddressBus(FromEffectiveAddress),
                          <<Move(SrcData, DstOperand)>>),
                    Cycle("Write", NoPhi1, <<Move(SrcOperand, DstData)>>),
                    Cycle("Write", NoPhi1, steps \o <<Move(SrcOperand, DstData)>>)>>]

\* a call that pushes the low byte of the return address first
JsrSequenceLowFirst ==
    <<OperandToEffectiveAddress,
      Cycle("Write", SetAddressBus(FromStack),
            <<Move(SrcInstructionPointer(0), DstData), IncrementStack(TRUE)>>),
      Cycle("Write", SetAddressBus(FromStack),
            <<Move(SrcInstructionPointer(1), DstData), IncrementStack(TRUE)>>),
      OperandToEffectiveAddress,
      Cycle("Read", NoPhi1, <<LoadInstructionPointerFromEffectiveAddress>>)>>

\* the cycles of Jsr, in place of the cycles of its addressing mode
JsrSequence ==
    <<OperandToEffectiveAddress,
      Cycle("Write", SetAddressBus(FromStack),
            <<Move(SrcInstructionPointer(1), DstData), IncrementStack(TRUE)>>),
      Cycle("Write", SetAddressBus(FromStack),
            <<Move(SrcInstructionPointer(0), DstData), IncrementStack(TRUE)>>),
      OperandToEffectiveAddress,
      Cycle("Read", NoPhi1, <<LoadInstructionPointerFromEffectiveAddress>>)>>

\* the cycles of Rts
RtsSequence ==
    <<Cycle("Read", NoPhi1, <<IncrementStack(FALSE)>>),
      Cycle("Read", SetAddressBus(FromStack),
            <<Move(SrcData, DstEffectiveAddress), IncrementStack(FALSE)>>),
      Cycle("Read", SetAddressBus(FromStack), <<Move(SrcData, DstEffectiveAddress)>>),
      Cycle("Read", NoPhi1, <<LoadInstructionPointerFromEffectiveAddress>>),
      Cycle("Read", NoPhi1, <<IncrementInstructionPointer>>)>>

\* a return from interrupt that leaves the flags on the stack
RtiSequenceKeepsFlags ==
    <<Cycle("Read", NoPhi1, <<IncrementStack(FALSE)>>),
      Cycle("Read", SetAddressBus(FromStack), <<IncrementStack(FALSE)>>),
      Cycle("Read", SetAddressBus(FromStack),
            <<Move(SrcData, DstEffectiveAddress), IncrementStack(FALSE)>>),
      Cycle("Read", SetAddressBus(FromStack), <<Move(SrcData, DstEffectiveAddress)>>),
      Cycle("Read", NoPhi1, <<LoadInstructionPointerFromEffectiveAddress>>)>>

\* the cycles of Rti
RtiSequence ==
    <<Cycle("Read", NoPhi1, <<IncrementStack(FALSE)>>),
      Cycle("Read", SetAddressBus(FromStack),
            <<Move(SrcData, DstFlags), IncrementStack(FALSE)>>),
      Cycle("Read", SetAddressBus(FromStack),
            <<Move(SrcData, DstEffectiveAddress), IncrementStack(FALSE)>>),
      Cycle("Read", SetAddressBus(FromStack), <<Move(SrcData, DstEffectiveAddress)>>),
      Cycle("Read", NoPhi1, <<LoadInstructionPointerFromEffectiveAddress>>)>>

\* a branch that never finds its flag
branch_never(c, opcode) == FALSE

\* the flag a conditional branch tests, read when the opcode is decoded
branch_taken(c, opcode) ==
    CASE opcode = "Bvs" -> c.flags.overflow
      [] opcode = "Bvc" -> ~c.flags.overflow
      [] opcode = "Beq" -> c.flags.zero
      [] opcode = "Bne" -> ~c.flags.zero
      [] opcode = "Bcs" -> c.flags.carry
      [] opcode = "Bcc" -> ~c.flags.carry
      [] opcode = "Bmi" -> c.flags.negative
      [] opcode = "Bpl" -> ~c.flags.negative

\* the tail of a branch: nothing when not taken; the operand read and one
\* cycle adding it to the instruction pointer when taken
BranchTail(c, instruction) ==
    IF branch_taken(c, instruction.opcode)
    THEN LET patched == patch_read_maybe_effective_address_dependent(
                            c, instruction.addressing_mode, <<Move(SrcData, DstOperand)>>)
         IN  IF patched.crashed THEN patched
             ELSE [patched EXCEPT !.instruction_queue =
                      Append(@, Cycle("Read", NoPhi1,
                                      <<AddToPointerLikeRegister(
                                            TRUE, "Signed", AddOperand,
                                            "InstructionPointer")>>))]
    ELSE c

\* pull_stack_item: the queue is cleared, then a dummy, the stack up, the read
pull_stack_item(c, item) ==
    [c EXCEPT !.instruction_queue =
        <<dummy,
          Cycle("Read", NoPhi1, <<IncrementStack(FALSE)>>),
          Cycle("Read", SetAddressBus(FromStack), <<Move(SrcData, item)>>)>>]

\* push_stack_item: one write at the stack, the stack down
push_stack_item(c, item) ==
    [c EXCEPT !.instruction_queue =
        Append(@, Cycle("Write", SetAddressBus(FromStack),
                        <<Move(item, DstData), IncrementStack(TRUE)>>))]

\* the conditional branches
Branches == {"Bvs", "Bvc", "Beq", "Bne", "Bcs", "Bcc", "Bmi", "Bpl"}

\* push_steps_for_instruction
push_steps_for_instruction(c, instruction) ==
    LET mode == instruction.addressing_mode
        opcode == instruction.opcode
        queued == [c EXCEPT !.instruction_queue = @ \o Prelude(mode, c.kind)]
        Read(steps) == patch_read_maybe_effective_address_dependent(queued, mode, steps)
        Write(steps) == insert_write_effective_address_dependent(queued, mode, steps)
        Modify(steps) == insert_rmw_effective_address_dependent(queued, steps)
        ShiftBy(direction, rotate) ==
            IF mode = "Accumulator"
            THEN Read(<<Shift(direction, rotate, TRUE)>>)
            ELSE Modify(<<Shift(direction, rotate, FALSE)>>)
        Transfer(source, destination) == Read(<<Move(source, destination)>>)
    IN  CASE opcode \in {"Brk", "Jam"} -> Crash(queued)
          [] opcode = "Nop" -> queued
          [] opcode = "Adc" -> Read(<<Move(SrcData, DstOperand), Add(FALSE)>>)
          [] opcode = "Sbc" -> Read(<<Move(SrcData, DstOperand), Add(TRUE)>>)
          [] opcode = "And" -> Read(<<Move(SrcData, DstOperand), And(TRUE)>>)
          [] opcode = "Bit" -> Read(<<Move(SrcData, DstOperand), And(FALSE)>>)
          [] opcode = "Eor" -> Read(<<Move(SrcData, DstOperand), Xor>>)
          [] opcode = "Ora" -> Read(<<Move(SrcData, DstOperand), Or>>)
          [] opcode = "Cmp" -> Read(<<Move(SrcData, DstOperand), Compare("a")>>)
          [] opcode = "Cpx" -> Read(<<Move(SrcData, DstOperand), Compare("x")>>)
          [] opcode = "Cpy" -> Read(<<Move(SrcData, DstOperand), Compare("y")>>)
          [] opcode = "Jmp" ->
                 LeechOntoLast(queued, <<LoadInstructionPointerFromEffectiveAddress>>)
          [] opcode = "Lda" -> Transfer(SrcData, DstRegister("a", TRUE))
          [] opcode = "Ldx" -> Transfer(SrcData, DstRegister("x", TRUE))
          [] opcode = "Ldy" -> Transfer(SrcData, DstRegister("y", TRUE))
          [] opcode = "Sta" -> Write(<<Move(SrcRegister("a"), DstData)>>)
          [] opcode = "Stx" -> Write(<<Move(SrcRegister("x"), DstData)>>)
          [] opcode = "Sty" -> Write(<<Move(SrcRegister("y"), DstData)>>)
          [] opcode = "Asl" -> ShiftBy("Left", FALSE)
          [] opcode = "Lsr" -> ShiftBy("Right", FALSE)
          [] opcode = "Rol" -> ShiftBy("Left", TRUE)
          [] opcode = "Ror" -> ShiftBy("Right", TRUE)
          [] opcode = "Inc" -> Modify(<<Increment("operand", FALSE)>>)
          [] opcode = "Dec" -> Modify(<<Increment("operand", TRUE)>>)
          [] opcode = "Inx" -> Read(<<Increment("x", FALSE)>>)
          [] opcode = "Iny" -> Read(<<Increment("y", FALSE)>>)
          [] opcode = "Dex" -> Read(<<Increment("x", TRUE)>>)
          [] opcode = "Dey" -> Read(<<Increment("y", TRUE)>>)
          [] opcode = "Jsr" -> [c EXCEPT !.instruction_queue = JsrSequence]
          [] opcode = "Rts" -> [c EXCEPT !.instruction_queue = RtsSequence]
          [] opcode = "Rti" -> [c EXCEPT !.instruction_queue = RtiSequence]
          [] opcode = "Pha" -> push_stack_item(queued, SrcRegister("a"))
          [] opcode = "Php" -> push_stack_item(queued, SrcFlags(TRUE))
          [] opcode = "Pla" -> pull_stack_item(queued, DstRegister("a", TRUE))
          [] opcode = "Plp" -> pull_stack_item(queued, DstFlags)
          [] opcode = "Clc" -> Read(<<SetFlag("carry", FALSE)>>)
          [] opcode = "Cld" -> Read(<<SetFlag("decimal", FALSE)>>)
          [] opcode = "Cli" -> Read(<<SetFlag("interrupt_disable", FALSE)>>)
          [] opcode = "Clv" -> Read(<<SetFlag("overflow", FALSE)>>)
          [] opcode = "Sec" -> Read(<<SetFlag("carry", TRUE)>>)
          [] opcode = "Sed" -> Read(<<SetFlag("decimal", TRUE)>>)
          [] opcode = "Sei" -> Read(<<SetFlag("interrupt_disable", TRUE)>>)
          [] opcode = "Tax" -> Transfer(SrcRegister("a"), DstRegister("x", TRUE))
          [] opcode = "Tay" -> Transfer(SrcRegister("a"), DstRegister("y", TRUE))
          [] opcode = "Tsx" -> Transfer(SrcStack, DstRegister("x", TRUE))
          [] opcode = "Txa" -> Transfer(SrcRegister("x"), DstRegister("a", TRUE))
          [] opcode = "Txs" -> Transfer(SrcRegister("x"), DstStack)
          [] opcode = "Tya" -> Transfer(SrcRegister("y"), DstRegister("a", TRUE))
          [] opcode \in Branches -> BranchTail(queued, instruction)

(***************************************************************************)
(* Execution of one cycle (Mos6502::synchronize, lib.rs)                   *)
(***************************************************************************)
\* AddressSpace::read_le_value(..).unwrap_or_default(): an unmapped address reads 0
MemRead(memory, address) == IF address \in DOMAIN memory THEN memory[address] ELSE 0

\* AddressSpace::write_le_value(..).unwrap_or_default(): an unmapped address is not written
MemWrite(memory, address, data) ==
    IF address \in DOMAIN memory THEN [memory EXCEPT ![address] = data] ELSE memory

\* the effective address as an address: one byte or two, little endian
EffectiveAddressValue(ea) == IF Len(ea) = 1 THEN ea[1] ELSE Word(ea[1], ea[2])

\* match current_cycle.phi1
ApplyPhi1(c, phi1) ==
    IF phi1.t = "None" THEN c
    ELSE CASE phi1.source.t = "InstructionPointer" ->
                  [c EXCEPT !.bus.address = c.instruction_pointer]
           [] phi1.source.t = "EffectiveAddress" ->
                  IF Len(c.effective_address) \in {1, 2}
                  THEN [c EXCEPT !.bus.address = EffectiveAddressValue(c.effective_address),
                                 !.effective_address = <<>>]
                  ELSE Crash(c)
           [] phi1.source.t = "Constant" -> [c EXCEPT !.bus.address = phi1.source.value]
           [] phi1.source.t = "Stack" ->
                  \* u16::from(stack) | STACK_BASE_ADDRESS
                  [c EXCEPT !.bus.address = STACK_BASE_ADDRESS + c.stack]

\* the byte a MoveSource stands for
MoveValue(c, source) ==
    CASE source.t = "Register" -> c[source.register]
      [] source.t = "Operand" -> c.operand
      [] source.t = "Stack" -> c.stack
      [] source.t = "Data" -> c.bus.data
      [] source.t = "Constant" -> source.value
      [] source.t = "Flags" -> to_byte(c.flags, source.break_)
      [] source.t = "InstructionPointer" ->
             IF source.offset = 0 THEN Lo(c.instruction_pointer) ELSE Hi(c.instruction_pointer)

\* Phi2::Move
ExecMove(c, source, destination) ==
    LET value == MoveValue(c, source)
    IN  CASE destination.t = "Register" ->
                 LET flagged == IF destination.update_nz
                                THEN [c EXCEPT !.flags.negative = value >= 128,
                                               !.flags.zero = (value = 0)]
                                ELSE c
                 IN  [flagged EXCEPT ![destination.register] = value]
          [] destination.t = "Operand" -> [c EXCEPT !.operand = value]
          [] destination.t = "Stack" -> [c EXCEPT !.stack = value]
          [] destination.t = "EffectiveAddress" ->
                 IF Len(c.effective_address) >= EffectiveAddressCapacity
                 THEN Crash(c)
                 ELSE [c EXCEPT !.effective_address = Append(@, value)]
          [] destination.t = "Opcode" ->
                 push_steps_for_instruction(c, Decode(c.bus.data, c.kind))
          [] destination.t = "Data" -> [c EXCEPT !.bus.data = value]
          [] destination.t = "Flags" -> [c EXCEPT !.flags = from_byte(value)]

\* (value as i8) as i16
AsSigned(byte) == IF byte >= 128 THEN byte - 256 ELSE byte

\* the value a PointerLikeRegister holds; a panic when effective_address is empty
PointerValue(c, register) ==
    CASE register = "AddressBus" -> c.bus.address
      [] register = "InstructionPointer" -> c.instruction_pointer
      [] register = "EffectiveAddress" ->
             IF Len(c.effective_address) = 1 THEN c.effective_address[1]
             ELSE Word(c.effective_address[1], c.effective_address[2])

\* Phi2::AddToPointerLikeRegister: the low byte is written, the high byte kept;
\* a page change pushes the adjustment cycle at the front when asked for
ExecAddToPointer(c, step) ==
    IF step.destination = "EffectiveAddress" /\ Len(c.effective_address) \notin {1, 2}
    THEN Crash(c)
    ELSE LET value == CASE step.source.t = "Register" -> c[step.source.register]
                        [] step.source.t = "Constant" -> step.source.value
                        [] step.source.t = "Operand" -> c.operand
             address == PointerValue(c, step.destination)
             signed == step.interpretation = "Signed"
             result == IF signed THEN WrapWord(address + AsSigned(value) + 65536)
                       ELSE WrapWord(address + value)
             carry == IF Hi(result) = Hi(address) THEN 0
                      ELSE IF signed /\ AsSigned(value) < 0 THEN -1 ELSE 1
             stale == Word(Lo(result), Hi(address))
             written ==
                 CASE step.destination = "AddressBus" -> [c EXCEPT !.bus.address = stale]
                   [] step.destination = "InstructionPointer" ->
                          [c EXCEPT !.instruction_pointer = stale]
                   [] step.destination = "EffectiveAddress" ->
                          IF Len(c.effective_address) = 1
                          THEN [c EXCEPT !.effective_address = <<Lo(result)>>]
                          ELSE [c EXCEPT !.effective_address = <<Lo(result), Hi(address)>>]
         IN  IF carry # 0 /\ step.insert_adjustment_cycle_upon_carry
             THEN [written EXCEPT !.instruction_queue =
                      <<Cycle("Read", NoPhi1,
                              <<AddCarryToPointerLikeRegister(step.destination, carry)>>)>>
                      \o @]
             ELSE written

\* a carry cycle that only ever moves the high byte up
ExecAddCarryUp(c, step) ==
    IF step.register = "EffectiveAddress" /\ Len(c.effective_address) # 2
    THEN Crash(c)
    ELSE LET address == PointerValue(c, step.register)
             fixed == Word(Lo(address), WrapByte(Hi(address) + 1))
         IN  CASE step.register = "AddressBus" -> [c EXCEPT !.bus.address = fixed]
               [] step.register = "InstructionPointer" ->
                      [c EXCEPT !.instruction_pointer = fixed]
               [] step.register = "EffectiveAddress" ->
                      [c EXCEPT !.effective_address = <<Lo(fixed), Hi(fixed)>>]

\* Phi2::AddCarryToPointerLikeRegister: the high byte catches up
ExecAddCarry(c, step) ==
    IF step.register = "EffectiveAddress" /\ Len(c.effective_address) # 2
    THEN Crash(c)
    ELSE LET address == PointerValue(c, step.register)
             fixed == Word(Lo(address), WrapByte(Hi(address) + step.carry + 256))
         IN  CASE step.register = "AddressBus" -> [c EXCEPT !.bus.address = fixed]
               [] step.register = "InstructionPointer" ->
                      [c EXCEPT !.instruction_pointer = fixed]
               [] step.register = "EffectiveAddress" ->
                      [c EXCEPT !.effective_address = <<Lo(fixed), Hi(fixed)>>]

\* u8::overflowing_add
overflowing_add(a, b) == [result |-> (a + b) % 256, carry |-> a + b > 255]

\* an addition that forgets the carry out of adding the carry in
ExecAddSecondCarryLost(c, step) ==
    LET operand == IF step.invert_operand THEN 255 - c.operand ELSE c.operand
        first == overflowing_add(c.a, operand)
        second == overflowing_add(first.result, IF c.flags.carry THEN 1 ELSE 0)
    IN  [c EXCEPT !.flags.overflow = /\ BitSet(c.a, 7) = BitSet(operand, 7)
                                     /\ BitSet(c.a, 7) # BitSet(second.result, 7),
                  !.flags.carry = first.carry,
                  !.flags.negative = BitSet(second.result, 7),
                  !.flags.zero = (second.result = 0),
                  !.a = second.result]

\* Phi2::Add: A + operand (or its complement) + carry, in two overflowing additions
ExecAdd(c, step) ==
    LET operand == IF step.invert_operand THEN 255 - c.operand ELSE c.operand
        first == overflowing_add(c.a, operand)
        second == overflowing_add(first.result, IF c.flags.carry THEN 1 ELSE 0)
    IN  [c EXCEPT !.flags.overflow = /\ BitSet(c.a, 7) = BitSet(operand, 7)
                                     /\ BitSet(c.a, 7) # BitSet(second.result, 7),
                  !.flags.carry = first.carry \/ second.carry,
                  !.flags.negative = BitSet(second.result, 7),
                  !.flags.zero = (second.result = 0),
                  !.a = second.result]

\* Phi2::Increment: the register or the operand moves by one, N and Z follow
ExecIncrement(c, step) ==
    LET value == WrapByte(c[step.operand] + (IF step.subtract THEN 255 ELSE 1))
    IN  [c EXCEPT ![step.operand] = value,
                  !.flags.negative = value >= 128,
                  !.flags.zero = (value = 0)]

\* Phi2::Shift: one bit out into the carry, the old carry in when rotating
ExecShift(c, step) ==
    LET register == IF step.a_is_operand THEN "a" ELSE "operand"
        operand == c[register]
        shift_input == IF step.rotate /\ c.flags.carry THEN 1 ELSE 0
        value == IF step.direction = "Left"
                 THEN WrapByte(operand * 2) + shift_input
                 ELSE (operand \div 2) + shift_input * 128
    IN  [c EXCEPT ![register] = value,
                  !.flags.carry = IF step.direction = "Left" THEN operand >= 128
                                  ELSE operand % 2 = 1,
                  !.flags.zero = (value = 0),
                  !.flags.negative = value >= 128]

\* one arm of match step
ExecPhi2(c, step) ==
    CASE step.op = "Move" -> ExecMove(c, step.source, step.destination)
      [] step.op = "LoadInstructionPointerFromEffectiveAddress" ->
             IF Len(c.effective_address) \in {1, 2}
             THEN [c EXCEPT !.instruction_pointer = EffectiveAddressValue(c.effective_address),
                            !.effective_address = <<>>]
             ELSE Crash(c)
      [] step.op = "IncrementStack" ->
             [c EXCEPT !.stack = IF step.subtract THEN WrapByte(@ + 255) ELSE WrapByte(@ + 1)]
      [] step.op = "IncrementInstructionPointer" ->
             [c EXCEPT !.instruction_pointer = WrapWord(@ + 1)]
      [] step.op = "SetFlag" -> [c EXCEPT !.flags[step.flag] = step.value]
      [] step.op = "AddToPointerLikeRegister" -> ExecAddToPointer(c, step)
      [] step.op = "AddCarryToPointerLikeRegister" -> ExecAddCarry(c, step)
      [] step.op = "Add" -> ExecAdd(c, step)
      [] step.op = "Increment" -> ExecIncrement(c, step)
      [] step.op = "Shift" -> ExecShift(c, step)

\* for step in current_cycle.phi2.clone(): a panic ends the loop
RECURSIVE RunPhi2(_, _)
RunPhi2(c, steps) ==
    IF steps = <<>> \/ c.crashed THEN c ELSE RunPhi2(ExecPhi2(c, Head(steps)), Tail(steps))

\* Mos6502::reset: the pending cycles go, the six cycles of the reset come;
\* no other field is written
reset(c) == [c EXCEPT !.instruction_queue = ResetSequence]

\* Mos6502Config::build_component
build_component(kind) ==
    reset([kind |-> kind, a |-> 0, x |-> 0, y |-> 0, flags |-> NoFlags, stack |-> 255,
           instruction_pointer |-> 0, instruction_queue |-> <<>>, operand |-> 0,
           bus |-> [address |-> 0, data |-> 0], effective_address |-> <<>>,
           crashed |-> FALSE])

\* NmiFlag::default
NmiDefault == [current_state |-> TRUE, falling_edge_occured |-> FALSE]

\* IrqFlag::default
IrqDefault == TRUE

\* RdyFlag::store, from another component
RdyStore(value) ==
    /\ rdy # value
    /\ rdy' = value
    /\ UNCHANGED <<cpu, mem, nmi, storing, irq, cpuObs>>
    /\ UNCHANGED <<schedVars, unitVars>>

\* IrqFlag::store, from another component
IrqStore(value) ==
    /\ irq # value
    /\ irq' = value
    /\ UNCHANGED <<cpu, mem, rdy, nmi, storing, cpuObs>>
    /\ UNCHANGED <<schedVars, unitVars>>

\* a level-sensitive store: every store(false) goes on to set the latch
NmiStoreLevel(value) ==
    /\ ~storing
    /\ (nmi.current_state /\ ~value) => cpuObs.edges < MaxEdges
    /\ nmi' = [nmi EXCEPT !.current_state = value]
    /\ storing' = ~value
    /\ cpuObs' = [cpuObs EXCEPT !.edges = IF nmi.current_state /\ ~value THEN @ + 1 ELSE @,
                             !.owed = (@ \/ (nmi.current_state /\ ~value))]
    /\ UNCHANGED <<cpu, mem, rdy, irq>>
    /\ UNCHANGED <<schedVars, unitVars>>

\* NmiFlag::store, from the component that drives the line, first half:
\* current_state.swap(nmi); on a change from true to false the call goes on
\* to set the latch, otherwise it is over
NmiStore(value) ==
    /\ ~storing
    /\ (nmi.current_state /\ ~value) => cpuObs.edges < MaxEdges
    /\ nmi' = [nmi EXCEPT !.current_state = value]
    /\ storing' = (nmi.current_state /\ ~value)
    /\ cpuObs' = [cpuObs EXCEPT !.edges = IF nmi.current_state /\ ~value THEN @ + 1 ELSE @,
                             !.owed = (@ \/ (nmi.current_state /\ ~value))]
    /\ UNCHANGED <<cpu, mem, rdy, irq>>
    /\ UNCHANGED <<schedVars, unitVars>>

\* a store that forgets to set the latch
NmiLatchDropped ==
    /\ storing
    /\ storing' = FALSE
    /\ UNCHANGED <<cpu, mem, rdy, nmi, irq, cpuObs>>
    /\ UNCHANGED <<schedVars, unitVars>>

\* NmiFlag::store, second half: falling_edge_occured.store(true)
NmiLatch ==
    /\ storing
    /\ storing' = FALSE
    /\ nmi' = [nmi EXCEPT !.falling_edge_occured = TRUE]
    /\ UNCHANGED <<cpu, mem, rdy, irq, cpuObs>>
    /\ UNCHANGED <<schedVars, unitVars>>

\* instruction_queue.pop_front(), or the opcode fetch when the queue is empty
CurrentCycle(c) ==
    IF c.instruction_queue # <<>> THEN Head(c.instruction_queue) ELSE FetchCycle

PopFront(c) ==
    IF c.instruction_queue # <<>> THEN [c EXCEPT !.instruction_queue = Tail(@)] ELSE c

\* a bus read that unwraps the result: an unmapped address panics
BusReadUnwrapped(c, current_cycle) ==
    IF current_cycle.bus_mode = "Read" /\ ~c.crashed
    THEN IF c.bus.address \in DOMAIN mem
         THEN [c EXCEPT !.bus.data = mem[c.bus.address]]
         ELSE Crash(c)
    ELSE c

\* the bus read of a read cycle
BusRead(c, current_cycle) ==
    IF current_cycle.bus_mode = "Read" /\ ~c.crashed
    THEN [c EXCEPT !.bus.data = MemRead(mem, c.bus.address)]
    ELSE c

\* a poll that flag I masks
PollsWhenEnabled(c) ==
    /\ ~c.crashed
    /\ supports_interrupts(c.kind)
    /\ c.instruction_queue = <<>>
    /\ ~c.flags.interrupt_disable

\* a poll after every cycle, whatever is still queued
PollsMidInstruction(c) ==
    /\ ~c.crashed
    /\ supports_interrupts(c.kind)

\* the interrupt poll at the end of an executed cycle
PollsNmi(c) ==
    /\ ~c.crashed
    /\ supports_interrupts(c.kind)
    /\ c.instruction_queue = <<>>

\* the registers as an instruction or an interrupt sequence finds them
Snapshot(c) ==
    [a |-> c.a, x |-> c.x, y |-> c.y, flags |-> c.flags, stack |-> c.stack,
     instruction_pointer |-> c.instruction_pointer]

\* Mos6502::synchronize, the body of its loop: one quantum of the processor
synchronize ==
    /\ ~cpu.crashed
    /\ cpuObs.cycles < MaxCycles
    /\ LET current_cycle == CurrentCycle(cpu)
           is_read_cycle == current_cycle.bus_mode = "Read"
           addressed == BusRead(ApplyPhi1(PopFront(cpu), current_cycle.phi1), current_cycle)
           stepped == RunPhi2(addressed, current_cycle.phi2)
           fetched == current_cycle = FetchCycle
           starts == fetched \/ cpuObs.taken
           takes == PollsNmi(stepped) /\ nmi.falling_edge_occured
       IN  IF addressed.crashed
           THEN /\ cpu' = addressed
                /\ cpuObs' = [cpuObs EXCEPT !.cycle = current_cycle]
                /\ UNCHANGED <<mem, nmi>>
           ELSE IF rdy \/ ~is_read_cycle
           THEN /\ mem' = IF is_read_cycle \/ stepped.crashed
                          THEN mem
                          ELSE MemWrite(mem, stepped.bus.address, stepped.bus.data)
                /\ nmi' = IF PollsNmi(stepped)
                          THEN [nmi EXCEPT !.falling_edge_occured = FALSE]
                          ELSE nmi
                /\ cpu' = IF takes
                          THEN [stepped EXCEPT !.instruction_queue =
                                                   InterruptSequence(NMI_VECTOR)]
                          ELSE stepped
                /\ cpuObs' = [cpuObs EXCEPT
                                 !.cycles = @ + 1,
                                 !.frozen = FALSE,
                                 !.edge = nmi.falling_edge_occured,
                                 !.cycle = current_cycle,
                                 !.of = IF fetched THEN "insn"
                                        ELSE IF cpuObs.taken THEN "nmi" ELSE @,
                                 !.opcode = IF fetched THEN addressed.bus.data ELSE @,
                                 !.pre = IF starts THEN Snapshot(cpu) ELSE @,
                                 !.entry = IF cpuObs.taken THEN Snapshot(cpu) ELSE @,
                                 !.call = IF fetched /\ addressed.bus.data = 32
                                          THEN Snapshot(cpu) ELSE @,
                                 !.open = IF cpuObs.taken THEN TRUE
                                          ELSE IF cpuObs.opcode = 64 /\ cpuObs.done THEN FALSE
                                          ELSE @,
                                 !.n = IF starts THEN 1 ELSE @ + 1,
                                 !.done = (~stepped.crashed /\ stepped.instruction_queue = <<>>),
                                 !.polled = PollsNmi(stepped),
                                 !.taken = takes,
                                 !.served = IF takes THEN @ + 1 ELSE @,
                                 !.owed = IF takes THEN storing ELSE @,
                                 !.raced = PollsNmi(stepped) /\ storing,
                                 !.irqLow = ~irq]
           ELSE /\ cpu' = [addressed EXCEPT !.instruction_queue = <<current_cycle>> \o @]
                /\ cpuObs' = [cpuObs EXCEPT !.frozen = TRUE, !.cycle = current_cycle]
                /\ UNCHANGED <<mem, nmi>>
    /\ UNCHANGED <<rdy, storing, irq>>
    /\ UNCHANGED <<schedVars, unitVars>>

(***************************************************************************)
(* Memory images                                                           *)
(***************************************************************************)
\* the mapped addresses: RAM under the stack pointer, a program, the vectors
Mapped == (500..511) \cup (4660..4664) \cup (32768..32772) \cup (65530..65533)

\* reset vector 0x1234: LDA #$80; JMP $1234.  NMI vector 0x8000
ImageLow ==
    [address \in Mapped |->
        CASE address = 4660 -> 169 [] address = 4661 -> 128
          [] address = 4662 -> 76 [] address = 4663 -> 52 [] address = 4664 -> 18
          [] address = 32768 -> 234 [] address = 32769 -> 173
          [] address = 32770 -> 52 [] address = 32771 -> 18
          [] address = 65530 -> 0 [] address = 65531 -> 128
          [] address = 65532 -> 52 [] address = 65533 -> 18
          [] OTHER -> 0]

\* reset vector 0x8000: NOP; LDA $1234; the byte 0x02.  NMI vector 0x1234
ImageHigh ==
    [ImageLow EXCEPT ![32772] = 2,
                     ![65530] = 52, ![65531] = 18, ![65532] = 0, ![65533] = 128]

\* seq laid out from address base
Bytes(base, seq) == [address \in base..(base + Len(seq) - 1) |-> seq[address - base + 1]]

\* RAM over the top of the stack page, zeroed
StackRam == [address \in 500..511 |-> 0]

\* the three vectors at 0xFFFA..0xFFFF
Vectors(nmi_target, reset_target, irq_target) ==
    Bytes(NMI_VECTOR, <<Lo(nmi_target), Hi(nmi_target), Lo(reset_target), Hi(reset_target),
                        Lo(irq_target), Hi(irq_target)>>)

\* NOP; JMP back to the NOP
Idle(at) == Bytes(at, <<234, 76, Lo(at), Hi(at)>>)

\* handlers at 0x9000 (NMI) and 0xA000 (IRQ), the program at reset_target
Handlers(reset_target) ==
    Idle(36864) @@ Idle(40960) @@ Vectors(36864, reset_target, 40960) @@ StackRam

\* 0x8000: LDA #v; STA $2000; STA $2001,X; CLI; NOP; JMP $8009.  RAM at 0x2000
ImageStore(v) ==
    Bytes(32768, <<169, v, 141, 0, 32, 157, 1, 32, 88, 234, 76, 9, 128>>)
        @@ Bytes(8192, <<0, 0, 0>>) @@ Handlers(32768)

\* 0x8000: LDX #$FF; LDA $2001,X; STA $2001,X; STA $2000,X; then idle.  RAM at
\* 0x2100 only: nothing is mapped at 0x2000 and 0x20FF
ImageIndexed ==
    Bytes(32768, <<162, 255, 189, 1, 32, 157, 1, 32, 157, 0, 32>>) @@ Idle(32779)
        @@ Bytes(8448, <<119>>) @@ Handlers(32768)

\* 0x80FC: LDA #v; 0x80FE: BEQ +16; 0x8100: idle; 0x8110: BEQ -128; 0x8092: idle
ImageBranch(v) ==
    Bytes(33020, <<169, v, 240, 16>>) @@ Idle(33024) @@ Bytes(33040, <<240, 128>>)
        @@ Idle(32914) @@ Handlers(33020)

\* 0x1000: JMP ($02FF); the pointer straddles the page; idle at both targets
ImageIndirect ==
    Bytes(4096, <<108, 255, 2>>) @@ Bytes(767, <<52, 120>>) @@ Bytes(512, <<18>>)
        @@ Idle(4660) @@ Idle(30772) @@ Handlers(4096)

\* 0x8000: first $2000; second $2000; then idle.  RAM at 0x2000 holds v
ImageModify(first, second, v) ==
    Bytes(32768, <<first, 0, 32, second, 0, 32>>) @@ Idle(32774)
        @@ Bytes(8192, <<v>>) @@ Handlers(32768)

\* 0x8000: JSR $8010; then idle.  0x8010: RTS
ImageCall ==
    Bytes(32768, <<32, 16, 128>>) @@ Idle(32771) @@ Bytes(32784, <<96>>) @@ Handlers(32768)

\* 0x8000: LDA #0; then idle.  The NMI handler at 0x9000: LDA #$80; RTI
ImageReturn ==
    Bytes(32768, <<169, 0>>) @@ Idle(32770) @@ Bytes(36864, <<169, 128, 64>>) @@ Idle(40960)
        @@ Vectors(36864, 32768, 40960) @@ StackRam

Images ==
    {ImageLow, ImageHigh, ImageStore(66), ImageStore(0), ImageStore(128), ImageIndexed,
     ImageBranch(0), ImageBranch(1), ImageIndirect,
     ImageModify(14, 238, 255), ImageModify(206, 110, 0), ImageModify(78, 46, 129),
     ImageCall, ImageReturn}

\* no cycle executed yet: the reset sequence is about to start
NoCpuObs ==
    [cycles |-> 0, frozen |-> FALSE, edge |-> FALSE, cycle |-> dummy, of |-> "reset",
     opcode |-> 0, pre |-> Snapshot(build_component("Mos6502")), n |-> 0, done |-> FALSE,
     polled |-> FALSE, taken |-> FALSE, served |-> 0, edges |-> 0, owed |-> FALSE,
     irqLow |-> FALSE, entry |-> Snapshot(build_component("Mos6502")),
     call |-> Snapshot(build_component("Mos6502")), open |-> FALSE, raced |-> FALSE]

(***************************************************************************)
(* The memory mapping table (lib/runtime/src/memory/overlapping.rs)        *)
(***************************************************************************)
\* the page size, scaled down from 4 KiB
PAGE_SIZE == 2

\* the pages of the table and the addresses they hold
Pages == 0..2

Addresses == 0..(Cardinality(Pages) * PAGE_SIZE - 1)

\* the mappings a table is built from, at most
MaxEntries == 2

\* RangeInclusive<Address>
RangeInclusive(start, end) == [start |-> start, end |-> end]

\* RangeIntersection::intersects
Intersects(a, b) == a.start <= b.end /\ b.start <= a.end

\* the access ranges: every start..=end inside the table
AccessRanges == {r \in [start : Addresses, end : Addresses] : r.start <= r.end}

\* the ranges mappings are assigned: inside a page, across a boundary, whole pages
MappingRanges ==
    {r \in AccessRanges : r.end - r.start \in {0, 1, PAGE_SIZE, 2 * PAGE_SIZE - 1}}

\* a mapping entry: its assigned range and its target
Entry(range, target) == [range |-> range, target |-> target]

\* Option<Page>: None, Page::Single(entry), Page::Multi(entries)
NoPage == [t |-> "None"]

Single(entry) == [t |-> "Single", entry |-> entry]

Multi(entries) == [t |-> "Multi", entries |-> entries]

\* the page range of a page index
PageRange(page) == RangeInclusive(page * PAGE_SIZE, page * PAGE_SIZE + PAGE_SIZE - 1)

\* the table the builder computes from the mappings in insertion order: every
\* page lists the entries that reach into it
ComputeTable(mappings) ==
    [page \in Pages |->
        LET entries == SelectSeq(mappings, LAMBDA e : Intersects(e.range, PageRange(page)))
        IN  CASE Len(entries) = 0 -> NoPage
              [] Len(entries) = 1 -> Single(entries[1])
              [] OTHER -> Multi(entries)]

\* the mappings of a table: ranges in insertion order, target i for the i-th
Mappings ==
    UNION {[1..n -> MappingRanges] : n \in 0..MaxEntries}

Tables == {ComputeTable([i \in DOMAIN ranges |-> Entry(ranges[i], i)]) : ranges \in Mappings}

\* Option<Item>::None, and the Item of an entry
NoItem == [t |-> "None"]

Item(entry) == [t |-> "Some", entry_assigned_range |-> entry.range, target |-> entry.target]

\* MemoryMappingTable::overlapping
overlapping(access_range) ==
    [cursor_page |-> access_range.start \div PAGE_SIZE,
     access_range |-> access_range,
     page_index |-> access_range.start \div PAGE_SIZE,
     end_page |-> access_range.end \div PAGE_SIZE,
     entry_index |-> 0]

\* a Single page yields whether or not it intersects
SingleYieldsUnchecked(it, entry) == it.entry_index = 0

\* Page::Single: yielded once, when it intersects
SingleYields(it, entry) == it.entry_index = 0 /\ Intersects(it.access_range, entry.range)

\* OverlappingMappingsIter::next: the iterator afterwards, the item, the slot it came from
RECURSIVE IterNext(_, _)
IterNext(table, it) ==
    IF it.page_index > it.end_page
    THEN [it |-> it, item |-> NoItem, slot |-> <<>>]
    ELSE LET page == table[it.cursor_page]
             advanced == [it EXCEPT !.page_index = @ + 1,
                                    !.entry_index = 0,
                                    !.cursor_page = IF it.page_index + 1 <= it.end_page
                                                    THEN it.page_index + 1 ELSE @]
         IN  CASE page.t = "Single" ->
                      IF SingleYields(it, page.entry)
                      THEN [it |-> [it EXCEPT !.entry_index = 1], item |-> Item(page.entry),
                            slot |-> <<it.cursor_page, 0>>]
                      ELSE IterNext(table, advanced)
               [] page.t = "Multi" ->
                      IF it.entry_index < Len(page.entries)
                      THEN LET entry == page.entries[it.entry_index + 1]
                               walked == [it EXCEPT !.entry_index = @ + 1]
                           IN  IF Intersects(it.access_range, entry.range)
                               THEN [it |-> walked, item |-> Item(entry),
                                     slot |-> <<it.cursor_page, it.entry_index>>]
                               ELSE IterNext(table, walked)
                      ELSE IterNext(table, advanced)
               [] OTHER -> IterNext(table, advanced)

\* no iterator made yet
NoIterator == [t |-> "None"]

\* nothing returned yet
NoIterObs == [yielded |-> <<>>, items |-> <<>>, nones |-> 0, late |-> FALSE]

\* Err(Unmapped), and the byte a target holds for an address
Unmapped == [t |-> "Err"]

Selected(entry, address) ==
    [t |-> "Ok", target |-> entry.target, offset |-> address - entry.range.start]

\* the range holds the address
Contains(range, address) == range.start <= address /\ address <= range.end

\* the first entry of the sequence whose range holds the address, or none
FirstContaining(entries, address) ==
    LET holding == SelectSeq(entries, LAMBDA e : Contains(e.range, address))
    IN  IF holding = <<>> THEN <<>> ELSE <<holding[1]>>

\* the page slot of the address: Single checks inclusion, Multi takes the first
\* entry in insertion order that holds the address
Dispatch(table, address) ==
    LET page == table[address \div PAGE_SIZE]
    IN  CASE page.t = "Single" -> FirstContaining(<<page.entry>>, address)
          [] page.t = "Multi" -> FirstContaining(page.entries, address)
          [] OTHER -> <<>>

\* AddressSpace::cache(): nothing remembered
NoCache == [t |-> "None"]

\* read_le_value::<u8>(address, now, None)
read_le_value(table, address) ==
    LET found == Dispatch(table, address)
    IN  IF found = <<>> THEN Unmapped ELSE Selected(found[1], address)

\* read_le_value::<u8>(address, now, Some(cache)): the cache's last range is
\* reused when it holds the address, else the page is inspected and the cache updated
read_le_value_cached(table, held, address) ==
    IF held # NoCache /\ Contains(held.range, address)
    THEN [result |-> Selected(held, address), cache |-> held]
    ELSE LET found == Dispatch(table, address)
         IN  IF found = <<>>
             THEN [result |-> Unmapped, cache |-> held]
             ELSE [result |-> Selected(found[1], address), cache |-> found[1]]

\* no read made yet
NoReadObs == [reads |-> 0, address |-> 0, cached |-> Unmapped, plain |-> Unmapped]

\* the reads followed through one cache
MaxReads == 3

\* a read through the caller's cache, next to the same read with no cache; the
\* table is followed either through its reads or through one iterator
Read(address) ==
    /\ readObs.reads < MaxReads
    /\ iterator = NoIterator
    /\ LET read == read_le_value_cached(computed_table, cache, address)
       IN  /\ cache' = read.cache
           /\ readObs' = [reads |-> readObs.reads + 1, address |-> address,
                          cached |-> read.result,
                          plain |-> read_le_value(computed_table, address)]
    /\ UNCHANGED <<computed_table, iterator, iterObs>>
    /\ UNCHANGED <<schedVars, cpuVars, audioVars, stepObs>>

\* the table unit at rest
MemIdle ==
    /\ computed_table = ComputeTable(<<>>)
    /\ iterator = NoIterator
    /\ iterObs = NoIterObs
    /\ cache = NoCache
    /\ readObs = NoReadObs

(***************************************************************************)
(* The CHIP-8 audio timer (definition/chip8/src/audio.rs)                  *)
(***************************************************************************)
\* Imaginary chip8 hardware sample rate
INTERNAL_SAMPLE_RATE == 8000

\* the fractional bits of Period and Frequency
FractionalBits == 64

\* the rate of the countdown timer
TimerFrequency == 60

\* the processor frequencies looked at: INTERNAL_SAMPLE_RATE / frequency is a
\* whole number for each, so that the f32 additions and subtractions are exact
Frequencies == {50, 250, 500}

\* the frequency followed long enough for the ring buffer to fill
SlowFrequencies == {50}

\* 2^exponent modulo m
RECURSIVE PowerOfTwoMod(_, _)
PowerOfTwoMod(exponent, m) ==
    IF exponent = 0 THEN 1 % m ELSE (2 * PowerOfTwoMod(exponent - 1, m)) % m

\* A Period next to a processor frequency f: the value
\* (whole * 2^64 - ulps) / (60 * f) units of 2^-64 seconds, |ulps| < 2^64
Period(whole, ulps) == [whole |-> whole, ulps |-> ulps]

\* Period::ZERO
ZERO == Period(0, 0)

\* Period::from_num(n).recip(), Frequency::recip(): floor(2^64 / n) units, for n dividing 60 * f
recip(n, f) ==
    LET scale == (TimerFrequency * f) \div n
    IN  Period(scale, scale * PowerOfTwoMod(FractionalBits, n))

\* a + b, a - b, a >= b on Periods
PeriodAdd(a, b) == Period(a.whole + b.whole, a.ulps + b.ulps)

PeriodSub(a, b) == Period(a.whole - b.whole, a.ulps - b.ulps)

PeriodGe(a, b) == a.whole > b.whole \/ (a.whole = b.whole /\ a.ulps <= b.ulps)

\* AllocRingBuffer::new((INTERNAL_SAMPLE_RATE * 10.0) as _): its capacity
BufferCapacity == INTERNAL_SAMPLE_RATE * 10

\* Chip8AudioConfig::build_component
Chip8AudioConfig(processor_frequency) ==
    [timer |-> 0, buffer |-> 0, processor_frequency |-> processor_frequency,
     timer_accumulator |-> ZERO, audio_accumulator |-> 0, crashed |-> FALSE,
     set |-> 0, quanta |-> 0]

\* at most n turns of the loop below
RECURSIVE PushUpTo(_, _)
PushUpTo(a, n) ==
    IF n > 0 /\ a.audio_accumulator >= 1
    THEN PushUpTo([a EXCEPT
             !.buffer = IF a.timer > 0 THEN Min(@ + 1, BufferCapacity) ELSE @,
             !.audio_accumulator = @ - 1], n - 1)
    ELSE a

\* while self.audio_accumulator >= 1.0: a sample is enqueued while the timer runs;
\* the turns of the loop are taken sixteen at a time
RECURSIVE PushSamples(_)
PushSamples(a) ==
    IF a.audio_accumulator >= 1 THEN PushSamples(PushUpTo(a, 16)) ELSE a

\* a count down that wraps below 0
CountDownWrapping(a, timer_period) ==
    LET due == CHOOSE k \in 0..((TimerFrequency \div a.processor_frequency) + 1) :
                   /\ k > 0 => PeriodGe(a.timer_accumulator,
                                        Period(k * timer_period.whole, k * timer_period.ulps))
                   /\ ~PeriodGe(a.timer_accumulator,
                                Period((k + 1) * timer_period.whole,
                                       (k + 1) * timer_period.ulps))
    IN  [a EXCEPT !.timer = (@ + 256 - due) % 256,
                  !.timer_accumulator =
                      PeriodSub(@, Period(due * timer_period.whole, due * timer_period.ulps))]

\* while self.timer_accumulator >= timer_period
RECURSIVE CountDown(_, _)
CountDown(a, timer_period) ==
    IF PeriodGe(a.timer_accumulator, timer_period)
    THEN CountDown([a EXCEPT !.timer = saturating_sub(@, 1),
                             !.timer_accumulator = PeriodSub(@, timer_period)],
                   timer_period)
    ELSE a

\* Chip8Audio::synchronize, the body of its loop: one quantum
Chip8Quantum(a) ==
    LET timer_period == recip(TimerFrequency, a.processor_frequency)
        samples_per_tick == INTERNAL_SAMPLE_RATE \div a.processor_frequency
        sampled == PushSamples([a EXCEPT !.audio_accumulator = @ + samples_per_tick])
        timed == [sampled EXCEPT
                     !.timer_accumulator =
                         PeriodAdd(@, recip(a.processor_frequency, a.processor_frequency))]
    IN  [CountDown(timed, timer_period) EXCEPT !.quanta = @ + 1]

\* the values the processor sets the timer to
TimerValues == {1, 30, 60, 255}

\* Chip8Audio::set, at t = 0; at the slow frequency the program keeps the sound
\* on and sets the timer again once it has run out
Chip8Set(value) ==
    /\ ~audio.crashed
    /\ \/ audio.quanta = 0
       \/ /\ audio.timer = 0
          /\ audio.processor_frequency \in SlowFrequencies
          /\ value = 255
    /\ audio' = [audio EXCEPT !.timer = value, !.set = value]
    /\ UNCHANGED <<schedVars, cpuVars, memVars, snapObs, stepObs>>

\* the seconds of virtual time the component is synchronized through
MaxSeconds == 1

\* the same at a slow frequency: more than the 10 seconds the ring buffer holds
MaxSlowSeconds == 11

SecondsFollowed(processor_frequency) ==
    IF processor_frequency \in SlowFrequencies THEN MaxSlowSeconds ELSE MaxSeconds

\* Chip8Audio::synchronize: one quantum of the processor period
Chip8Synchronize ==
    /\ ~audio.crashed
    /\ audio.quanta < SecondsFollowed(audio.processor_frequency) * audio.processor_frequency + 1
    /\ (audio.processor_frequency \in SlowFrequencies /\ audio.quanta > 0) => audio.timer > 0
    /\ audio' = Chip8Quantum(audio)
    /\ UNCHANGED <<schedVars, cpuVars, memVars, snapObs, stepObs>>

\* the snapshot versions a caller may hand in; both components store version 0
Versions == {0, 1, 7}

\* the readers a caller may hand in: the bytes they still hold
Readers == {<<>>, <<0>>, <<200>>}

\* no load_snapshot call yet
NoSnapObs == [component |-> "none", version |-> 0, result |-> "none", kept |-> TRUE]

\* Chip8Audio::load_snapshot, before the component runs
Chip8LoadSnapshot(version, reader) ==
    /\ ~audio.crashed
    /\ audio.quanta = 0
    /\ audio' = IF version # 0 THEN [audio EXCEPT !.crashed = TRUE]
                ELSE IF reader = <<>> THEN audio
                ELSE [audio EXCEPT !.timer = reader[1]]
    /\ snapObs' = [component |-> "Chip8Audio", version |-> version,
                   result |-> IF version # 0 THEN "panic"
                              ELSE IF reader = <<>> THEN "Err" ELSE "Ok",
                   kept |-> (audio' = audio)]
    /\ UNCHANGED <<schedVars, cpuVars, memVars, stepObs>>

\* Mos6502::load_snapshot, before the components run
Mos6502LoadSnapshot(version) ==
    /\ ~cpu.crashed
    /\ audio.quanta = 0
    /\ cpu' = IF version = 0 THEN Crash(cpu) ELSE cpu
    /\ snapObs' = [component |-> "Mos6502", version |-> version,
                   result |-> IF version = 0 THEN "panic" ELSE "Err",
                   kept |-> (cpu' = cpu)]
    /\ UNCHANGED <<mem, rdy, nmi, storing, irq, cpuObs>>
    /\ UNCHANGED <<schedVars, memVars, audio, stepObs>>

\* the audio unit at rest
AudioIdle == audio = Chip8AudioConfig(500) /\ snapObs = NoSnapObs

(***************************************************************************)
(* The phase-2 steps of the processor, applied on their own                *)
(***************************************************************************)
\* no step applied
NoStepObs ==
    [stage |-> "parked", mode |-> "none", step |-> Add(FALSE),
     before |-> build_component("Mos6502"),
     instruction |-> [opcode |-> "Nop", addressing_mode |-> NoMode]]

StepIdle == stepObs = NoStepObs

\* the pointers the steps are applied to: page starts, page ends, both ends of memory
PointerAddresses == {0, 16, 255, 256, 4848, 33023, 65280, 65535}

\* the bytes added to them: small, large, and both sides of the sign
PointerBytes == {0, 1, 15, 16, 127, 128, 129, 240, 255}

\* AddToPointerLikeRegisterSource
AddSources == {AddRegister("a"), AddRegister("x"), AddRegister("y"), AddConstant(1), AddOperand}

\* PointerLikeRegister
PointerLikeRegisters == {"AddressBus", "InstructionPointer", "EffectiveAddress"}

\* ArithmeticOperandInterpretation
Interpretations == {"Unsigned", "Signed"}

\* one AddToPointerLikeRegister step of the running cycle; a one-byte effective
\* address is never added to with the adjustment asked for
StepAddToPointer(insert, interpretation, source, destination) ==
    /\ stepObs.stage = "idle"
    /\ stepObs.mode = "pointer"
    /\ (destination = "EffectiveAddress" /\ Len(cpu.effective_address) = 1) => ~insert
    /\ LET step == AddToPointerLikeRegister(insert, interpretation, source, destination)
       IN  /\ cpu' = ExecPhi2(cpu, step)
           /\ stepObs' = [stepObs EXCEPT !.stage = "added", !.step = step, !.before = cpu]
    /\ UNCHANGED <<schedVars, mem, rdy, nmi, storing, irq, cpuObs, memVars, audioVars>>

\* the cycle after it: the front of the queue is taken and its steps run
StepNextCycle ==
    /\ stepObs.stage = "added"
    /\ cpu' = RunPhi2(PopFront(cpu), CurrentCycle(cpu).phi2)
    /\ stepObs' = [stepObs EXCEPT !.stage = "next"]
    /\ UNCHANGED <<schedVars, mem, rdy, nmi, storing, irq, cpuObs, memVars, audioVars>>

\* one Add step of the running cycle
StepAdd(invert_operand) ==
    /\ stepObs.stage = "idle"
    /\ stepObs.mode = "arithmetic"
    /\ LET step == Add(invert_operand)
       IN  /\ cpu' = ExecPhi2(cpu, step)
           /\ stepObs' = [stepObs EXCEPT !.stage = "summed", !.step = step, !.before = cpu]
    /\ UNCHANGED <<schedVars, mem, rdy, nmi, storing, irq, cpuObs, memVars, audioVars>>

\* the opcodes of the published 6502 instruction set that take each addressing mode
OpcodesOf(addressing_mode) ==
    LET indexed == {"Adc", "And", "Cmp", "Eor", "Lda", "Ora", "Sbc", "Sta"}
        shifted == {"Asl", "Lsr", "Rol", "Ror"}
        stepped == {"Dec", "Inc"}
        direct == indexed \cup shifted \cup stepped \cup
                      {"Bit", "Cpx", "Cpy", "Ldx", "Ldy", "Stx", "Sty"}
    IN  CASE addressing_mode = "Immediate" ->
                 (indexed \ {"Sta"}) \cup {"Cpx", "Cpy", "Ldx", "Ldy"}
          [] addressing_mode = "ZeroPage" -> direct
          [] addressing_mode = "XIndexedZeroPage" ->
                 indexed \cup shifted \cup stepped \cup {"Ldy", "Sty"}
          [] addressing_mode = "YIndexedZeroPage" -> {"Ldx", "Stx"}
          [] addressing_mode = "Absolute" -> direct \cup {"Jmp", "Jsr"}
          [] addressing_mode = "XIndexedAbsolute" ->
                 indexed \cup shifted \cup stepped \cup {"Ldy"}
          [] addressing_mode = "YIndexedAbsolute" -> indexed \cup {"Ldx"}
          [] addressing_mode = "XIndexedZeroPageIndirect" -> indexed
          [] addressing_mode = "ZeroPageIndirectYIndexed" -> indexed
          [] addressing_mode = "AbsoluteIndirect" -> {"Jmp"}
          [] addressing_mode = "Accumulator" -> shifted
          [] addressing_mode = "Relative" -> Branches
          [] addressing_mode = NoMode ->
                 {"Brk", "Clc", "Cld", "Cli", "Clv", "Dex", "Dey", "Inx", "Iny", "Nop",
                  "Pha", "Php", "Pla", "Plp", "Rti", "Rts", "Sec", "Sed", "Sei", "Tax",
                  "Tay", "Tsx", "Txa", "Txs", "Tya"}

\* Mos6502AddressingMode, and None for the implied opcodes
AddressingModes ==
    {"Immediate", "ZeroPage", "XIndexedZeroPage", "YIndexedZeroPage", "Absolute",
     "XIndexedAbsolute", "YIndexedAbsolute", "XIndexedZeroPageIndirect",
     "ZeroPageIndirectYIndexed", "AbsoluteIndirect", "Accumulator", "Relative", NoMode}

\* every documented opcode with each of its documented addressing modes
DocumentedInstructions ==
    UNION {{[opcode |-> opcode, addressing_mode |-> addressing_mode] :
               opcode \in OpcodesOf(addressing_mode)} :
           addressing_mode \in AddressingModes}

\* the decode of a fetched opcode: the cycles of the instruction are queued
StepDecode(instruction) ==
    /\ stepObs.stage = "idle"
    /\ stepObs.mode = "decode"
    /\ cpu' = push_steps_for_instruction(cpu, instruction)
    /\ stepObs' = [stepObs EXCEPT !.stage = "decoded", !.instruction = instruction,
                                  !.before = cpu]
    /\ UNCHANGED <<schedVars, mem, rdy, nmi, storing, irq, cpuObs, memVars, audioVars>>

\* the units at rest, while another component is looked at
UnitsIdle == MemIdle /\ AudioIdle /\ StepIdle

\* table.overlapping(access_range)
Overlapping(access_range) ==
    /\ iterator = NoIterator
    /\ readObs.reads = 0
    /\ iterator' = overlapping(access_range)
    /\ iterObs' = NoIterObs
    /\ UNCHANGED <<computed_table, cache, readObs>>
    /\ UNCHANGED <<schedVars, cpuVars, audioVars, stepObs>>

\* the calls of next() after the first None that are followed up
MaxNones == 2

\* iterator.next()
IteratorNext ==
    /\ iterator # NoIterator
    /\ iterObs.nones < MaxNones
    /\ LET result == IterNext(computed_table, iterator)
       IN  /\ iterator' = result.it
           /\ iterObs' = IF result.item = NoItem
                         THEN [iterObs EXCEPT !.nones = @ + 1]
                         ELSE [iterObs EXCEPT !.yielded = Append(@, result.slot),
                                              !.items = Append(@, result.item),
                                              !.late = (iterObs.nones > 0)]
    /\ UNCHANGED <<computed_table, cache, readObs>>
    /\ UNCHANGED <<schedVars, cpuVars, audioVars, stepObs>>

(***************************************************************************)
(* Specification of the scheduler                                          *)
(***************************************************************************)
\* Scheduler::new(); no component has been synchronized yet
SchedulerInit ==
    /\ current_driven_time = 0
    /\ lockHeld = FALSE
    /\ driven = <<>>
    /\ registered = <<>>
    /\ updated_timestamp = [c \in Components |-> 0]
    /\ last_attempted_allocation = [c \in Components |-> None]
    /\ event_queue = {}
    /\ interrupt = FALSE
    /\ pushes = 0
    /\ pc = "idle"
    /\ cur = 1
    /\ target_timestamp = 0
    /\ iter = [period |-> 1, budget |-> 0]
    /\ obs = NoObs

\* a machine with the two driven components built
Init ==
    /\ SchedulerInit
    /\ cpu = build_component("Mos6502")
    /\ mem = ImageLow
    /\ rdy = TRUE
    /\ nmi = NmiDefault
    /\ storing = FALSE
    /\ irq = IrqDefault
    /\ cpuObs = NoCpuObs
    /\ UnitsIdle

SchedulerStep ==
    \/ \E limit \in {None} \cup (1..MaxLimit) : allocate(limit)
    \/ nextPreempted
    \/ nextSome
    \/ nextNone
    \/ runReturn

Next ==
    \/ \E c \in Components : register_driven_component(c)
    \/ \E d \in 1..MaxTime : run(d)
    \/ SchedulerStep
    \/ \E t \in 1..MaxTime : PushEvent(t)
    \/ PopDue
    \/ Now

Spec == Init /\ [][Next]_vars

\* the thread inside run keeps running
LiveSpec == Spec /\ WF_vars(SchedulerStep)

(***************************************************************************)
(* Specification of the processor                                          *)
(***************************************************************************)
\* a processor of any kind, built over either image, before its first cycle
CpuInit ==
    /\ SchedulerInit
    /\ \E kind \in Kinds : cpu = build_component(kind)
    /\ mem \in Images
    /\ rdy = TRUE
    /\ nmi = NmiDefault
    /\ storing = FALSE
    /\ irq = IrqDefault
    /\ cpuObs = NoCpuObs
    /\ UnitsIdle

CpuNext ==
    \/ synchronize
    \/ \E value \in BOOLEAN : RdyStore(value)
    \/ \E value \in BOOLEAN : IrqStore(value)
    \/ \E value \in BOOLEAN : NmiStore(value)
    \/ NmiLatch

CpuSpec == CpuInit /\ [][CpuNext]_vars

(***************************************************************************)
(* Specification of the memory mapping table                               *)
(***************************************************************************)
\* any table the builder can compute, no iterator yet
MemInit ==
    /\ SchedulerInit
    /\ cpu = build_component("Mos6502")
    /\ mem = ImageLow
    /\ rdy = TRUE
    /\ nmi = NmiDefault
    /\ storing = FALSE
    /\ irq = IrqDefault
    /\ cpuObs = NoCpuObs
    /\ computed_table \in Tables
    /\ iterator = NoIterator
    /\ iterObs = NoIterObs
    /\ cache = NoCache
    /\ readObs = NoReadObs
    /\ AudioIdle
    /\ StepIdle

MemNext ==
    \/ \E access_range \in AccessRanges : Overlapping(access_range)
    \/ IteratorNext
    \/ \E address \in Addresses : Read(address)

MemSpec == MemInit /\ [][MemNext]_vars

(***************************************************************************)
(* Specification of the CHIP-8 audio timer                                 *)
(***************************************************************************)
\* the component as built, for each processor frequency
AudioInit ==
    /\ SchedulerInit
    /\ cpu = build_component("Mos6502")
    /\ mem = ImageLow
    /\ rdy = TRUE
    /\ nmi = NmiDefault
    /\ storing = FALSE
    /\ irq = IrqDefault
    /\ cpuObs = NoCpuObs
    /\ MemIdle
    /\ \E processor_frequency \in Frequencies : audio = Chip8AudioConfig(processor_frequency)
    /\ snapObs = NoSnapObs
    /\ StepIdle

AudioNext ==
    \/ \E value \in TimerValues : Chip8Set(value)
    \/ Chip8Synchronize
    \/ \E version \in Versions, reader \in Readers : Chip8LoadSnapshot(version, reader)
    \/ \E version \in Versions : Mos6502LoadSnapshot(version)

AudioSpec == AudioInit /\ [][AudioNext]_vars

(***************************************************************************)
(* Specification of the phase-2 steps                                      *)
(***************************************************************************)
\* a processor in the middle of an instruction, one cycle still queued
Midway == [build_component("Mos6502") EXCEPT !.instruction_queue = <<dummy>>]

\* the inputs of a pointer addition, the inputs of an addition to A, or a
\* processor of any kind that has just fetched an opcode
StepInit ==
    /\ SchedulerInit
    /\ mem = ImageLow
    /\ rdy = TRUE
    /\ nmi = NmiDefault
    /\ storing = FALSE
    /\ irq = IrqDefault
    /\ cpuObs = NoCpuObs
    /\ MemIdle
    /\ AudioIdle
    /\ \/ /\ \E address \in PointerAddresses, value \in PointerBytes, length \in {1, 2} :
                cpu = [Midway EXCEPT !.instruction_pointer = address,
                                     !.bus.address = address,
                                     !.effective_address =
                                         IF length = 1 THEN <<Lo(address)>>
                                         ELSE <<Lo(address), Hi(address)>>,
                                     !.a = value, !.x = value, !.y = value,
                                     !.operand = value]
          /\ stepObs = [NoStepObs EXCEPT !.stage = "idle", !.mode = "pointer"]
       \/ /\ \E a \in 0..255, operand \in 0..255, carry \in BOOLEAN :
                cpu = [Midway EXCEPT !.a = a, !.operand = operand, !.flags.carry = carry]
          /\ stepObs = [NoStepObs EXCEPT !.stage = "idle", !.mode = "arithmetic"]
       \/ /\ \E kind \in Kinds, flag \in BOOLEAN :
                cpu = [build_component(kind) EXCEPT
                          !.instruction_queue = <<>>,
                          !.flags = [name \in DOMAIN NoFlags |-> flag]]
          /\ stepObs = [NoStepObs EXCEPT !.stage = "idle", !.mode = "decode"]

StepNext ==
    \/ \E insert \in BOOLEAN, interpretation \in Interpretations, source \in AddSources,
          destination \in PointerLikeRegisters :
          StepAddToPointer(insert, interpretation, source, destination)
    \/ StepNextCycle
    \/ \E invert_operand \in BOOLEAN : StepAdd(invert_operand)
    \/ \E instruction \in DocumentedInstructions : StepDecode(instruction)

StepSpec == StepInit /\ [][StepNext]_vars

(***************************************************************************)
(* Properties of the scheduler                                             *)
(***************************************************************************)
\* run has invoked every driven component and is about to return
AtRunEnd == pc = "loop" /\ cur > Len(driven)

\* a synchronize call has just returned because next() gave None
AfterSync == pc = "loop" /\ obs.finished

\* how far component c has advanced in the current run
Advanced(c) == updated_timestamp[c] - obs.before[c]

\* the largest multiple of p that is at most t
WholeQuanta(t, p) == (t \div p) * p

(***************************************************************************)
(* C1: after each run(d), d > 0, returns, now() is its value before the    *)
(* call plus d exactly; now() never decreases.                             *)
(***************************************************************************)
C1_NowAdvancesByDelta ==
    [][/\ current_driven_time' >= current_driven_time
       /\ (pc # "idle" /\ pc' = "idle") =>
              /\ obs.delta > 0
              /\ current_driven_time' = obs.preNow + obs.delta]_vars

\* a second run has returned
C1_Witness ==
    /\ pc = "idle"
    /\ obs.runs
    /\ obs.preNow > 0
    /\ current_driven_time = obs.preNow + obs.delta

(***************************************************************************)
(* C2, as claimed: a component with period p that consumes every quantum   *)
(* it is offered has, after run(d), advanced by exactly floor(d/p)*p minus *)
(* the time event preemption held back (so by exactly floor(d/p)*p when no *)
(* event was pending during the run), and is not past target.              *)
(***************************************************************************)
C2_AdvanceFromDelta ==
    AtRunEnd =>
        \A c \in Range(driven) :
            obs.full[c] =>
                /\ Advanced(c) <= WholeQuanta(obs.delta, PeriodOf(c))
                /\ obs.calm => Advanced(c) = WholeQuanta(obs.delta, PeriodOf(c))
                /\ updated_timestamp[c] <= target_timestamp

(***************************************************************************)
(* C2, amended: the component advances by exactly floor((target - t0)/p)*p *)
(* where t0 is its observed time before the run (the time not consumed by  *)
(* earlier runs is carried over), minus the time event preemption held     *)
(* back, and is not past target.                                           *)
(***************************************************************************)
C2_AdvanceFromLag ==
    AtRunEnd =>
        \A c \in Range(driven) :
            obs.full[c] =>
                /\ Advanced(c) <= WholeQuanta(target_timestamp - obs.before[c], PeriodOf(c))
                /\ obs.calm =>
                       Advanced(c) = WholeQuanta(target_timestamp - obs.before[c], PeriodOf(c))
                /\ updated_timestamp[c] <= target_timestamp

\* a run in which a component caught up on time carried over: it advanced by
\* more than floor(d/p)*p
C2_Witness ==
    /\ AtRunEnd
    /\ \E c \in Range(driven) :
           /\ obs.full[c]
           /\ obs.calm
           /\ Advanced(c) > WholeQuanta(obs.delta, PeriodOf(c))

(***************************************************************************)
(* C3: after N timestamps taken from a QuantaIterator the component's      *)
(* updated_timestamp is start + N*period, the N-th timestamp returned is   *)
(* that value, and no timestamp returned is greater than target_timestamp. *)
(***************************************************************************)
C3_ExactQuanta ==
    pc = "iter" =>
        /\ updated_timestamp[driven[cur]] = obs.start + obs.taken * iter.period
        /\ obs.taken > 0 =>
               /\ obs.last = obs.start + obs.taken * iter.period
               /\ obs.last <= target_timestamp

\* two timestamps taken from one iterator
C3_Witness == pc = "iter" /\ obs.taken >= 2

(***************************************************************************)
(* C4: an event was pending through a whole synchronize call (no limit)    *)
(* with its trigger time strictly inside the interval the component would  *)
(* otherwise have been allocated.                                          *)
(***************************************************************************)
C4_EventInside ==
    /\ AfterSync
    /\ obs.limit = None
    /\ obs.quiet
    /\ event_queue # {}
    /\ obs.start < next_event
    /\ next_event < obs.start + WholeQuanta(target_timestamp - obs.start, iter.period)

\* C4, as claimed: the quantum that contains the trigger time was delivered
\* and was the last one
C4_QuantumWithEventDelivered ==
    C4_EventInside =>
        /\ updated_timestamp[obs.comp] >= next_event
        /\ updated_timestamp[obs.comp] - iter.period < next_event

\* C4, amended: the last quantum delivered is the last one that ends at or
\* before the trigger time; a quantum that would end after the trigger time
\* is not delivered in this call
C4_StopsAtEvent ==
    C4_EventInside =>
        /\ updated_timestamp[obs.comp] <= next_event
        /\ next_event < updated_timestamp[obs.comp] + iter.period

\* quanta were delivered, and the one containing the trigger time was not
C4_Witness ==
    /\ C4_EventInside
    /\ obs.taken >= 1
    /\ updated_timestamp[obs.comp] < next_event

C6_PreemptionShortens ==
    [][(pc = "iter" /\ pc' = "iter") =>
          /\ interrupt => updated_timestamp' = updated_timestamp
          /\ (interrupt /\ ~interrupt') =>
                 LET stop == IF event_queue = {} THEN target_timestamp
                             ELSE Min(target_timestamp, SetMin(event_queue))
                     fresh == saturating_sub(stop, updated_timestamp[driven[cur]])
                                  \div iter.period
                 IN  iter'.budget = Min(iter.budget, fresh)
          /\ iter'.budget <= iter.budget
          /\ updated_timestamp' # updated_timestamp => iter'.budget = iter.budget - 1]_vars

\* an iterator whose budget was cut by a preemption after it had yielded
C6_Witness ==
    /\ pc = "iter"
    /\ obs.preempted
    /\ ~interrupt
    /\ obs.taken >= 1
    /\ iter.budget = 0
    /\ obs.start + obs.taken * iter.period + iter.period <= obs.stop

(***************************************************************************)
(* C7: run(d) always returns.  Under LiveSpec (the thread inside run keeps *)
(* taking steps) every run in progress reaches its return: each next()     *)
(* leaves its re-evaluation loop, each component receives finitely many    *)
(* quanta, and the loop over the driven components ends.                   *)
(***************************************************************************)
C7_RunReturns == (pc # "idle") ~> (pc = "idle")

\* a run of two components, one of them preempted, has returned
C7_Witness ==
    /\ pc = "idle"
    /\ obs.runs
    /\ Len(driven) = 2
    /\ pushes > 0
    /\ \E c \in Components : updated_timestamp[c] > 0

(***************************************************************************)
(* C8: the current-time lock is released before any driven component is    *)
(* invoked, so now() is never blocked by a run in progress.                *)
(***************************************************************************)
C8_LockFreeWhileComponentsRun == pc = "iter" => (~lockHeld /\ ENABLED Now)

(***************************************************************************)
(* C9: allocate(period, Some(limit)) yields at most limit timestamps and   *)
(* at most floor((min(target, next_event) - updated_timestamp)/period);    *)
(* allocate(period, None) yields exactly that many when no preemption      *)
(* occurs; allocate records period as last_attempted_allocation.           *)
(***************************************************************************)
C9_AllocateBudget ==
    (pc = "iter" \/ AfterSync) =>
        LET floorAtAllocate == saturating_sub(obs.stop, obs.start) \div iter.period
        IN  /\ obs.taken <= floorAtAllocate
            /\ obs.limit # None => obs.taken <= obs.limit
            /\ (AfterSync /\ obs.limit = None /\ ~obs.preempted) =>
                   obs.taken = floorAtAllocate
            /\ last_attempted_allocation[obs.comp] = iter.period
            /\ iter.period = PeriodOf(obs.comp)

\* a limit that cut the budget short, and an unlimited iterator run to its end
C9_Witness ==
    /\ AfterSync
    /\ obs.limit # None
    /\ obs.taken = obs.limit
    /\ obs.taken < saturating_sub(obs.stop, obs.start) \div iter.period

(***************************************************************************)
(* Properties of the processor                                             *)
(***************************************************************************)
\* the cycle just executed was the sixth since the processor was built
AfterSixCycles == cpuObs.cycles = 6 /\ ~cpuObs.frozen

\* the word at the reset vector, little endian
ResetTarget == Word(MemRead(mem, RESET_VECTOR), MemRead(mem, RESET_VECTOR + 1))

\* registers and flags as the reset sequence leaves them
ResetRegisters ==
    /\ ~cpu.crashed
    /\ cpu.instruction_pointer = ResetTarget
    /\ cpu.stack = 253
    /\ cpu.flags.interrupt_disable
    /\ ~cpu.flags.negative /\ ~cpu.flags.overflow /\ ~cpu.flags.decimal
    /\ ~cpu.flags.zero /\ ~cpu.flags.carry

\* reset() on the processor as it is now leaves six pending cycles
ResetInstallsSix ==
    /\ Len(reset(cpu).instruction_queue) = 6
    /\ reset(cpu).instruction_queue = build_component(cpu.kind).instruction_queue

\* a processor that has not executed a cycle yet holds the reset sequence
FreshInReset == cpuObs.cycles = 0 /\ ~cpuObs.frozen => cpu = build_component(cpu.kind)

(***************************************************************************)
(* C10 as stated: reset() installs exactly six cycles; after six executed  *)
(* cycles the instruction pointer is the word at 0xFFFC, stack = 0xFD, I   *)
(* is set, N V D Z C are clear and the queue is empty; a freshly built     *)
(* processor starts in the reset sequence.                                 *)
(***************************************************************************)
C10_ResetLeavesQueueEmpty ==
    /\ ResetInstallsSix
    /\ FreshInReset
    /\ AfterSixCycles => (ResetRegisters /\ cpu.instruction_queue = <<>>)

(***************************************************************************)
(* C10: reset() installs exactly six cycles and a freshly built processor  *)
(* starts in them; after six executed cycles the instruction pointer is    *)
(* the word at 0xFFFC, stack = 0xFD, I is set, N V D Z C are clear; the    *)
(* queue is empty unless the kind supports interrupts and a falling edge   *)
(* of NMI was latched when the sixth cycle ran: then the queue holds the   *)
(* six cycles of the NMI sequence.                                         *)
(***************************************************************************)
C10_ResetLoadsVector ==
    /\ ResetInstallsSix
    /\ FreshInReset
    /\ AfterSixCycles =>
           /\ ResetRegisters
           /\ cpu.instruction_queue =
                  IF supports_interrupts(cpu.kind) /\ cpuObs.edge
                  THEN InterruptSequence(NMI_VECTOR)
                  ELSE <<>>

\* six cycles after the build over the image with 0x34 0x12 at 0xFFFC: IP = 0x1234
C10_Witness ==
    /\ AfterSixCycles
    /\ cpu.instruction_pointer = 4660
    /\ cpu.stack = 253
    /\ cpu.instruction_queue = <<>>

\* the instruction with this opcode byte has just executed its last cycle
InsnDone(byte) == cpuObs.of = "insn" /\ cpuObs.opcode = byte /\ cpuObs.done

\* where the opcode of the current instruction was fetched
InsnAt == cpuObs.pre.instruction_pointer

\* the bytes after the opcode
Operand1 == MemRead(mem, WrapWord(InsnAt + 1))

Operand2 == MemRead(mem, WrapWord(InsnAt + 2))

(***************************************************************************)
(* C11: LDA #v takes 2 cycles and leaves A = v, N = bit 7 of v,            *)
(* Z = (v = 0); STA abs takes 4 cycles, writes A to the little-endian      *)
(* operand address and changes no flag.                                    *)
(***************************************************************************)
C11_LdaImmediateStaAbsolute ==
    /\ InsnDone(169) =>
           /\ cpuObs.n = 2
           /\ cpu.a = Operand1
           /\ cpu.flags.negative = (Operand1 >= 128)
           /\ cpu.flags.zero = (Operand1 = 0)
    /\ InsnDone(141) =>
           /\ cpuObs.n = 4
           /\ MemRead(mem, Word(Operand1, Operand2)) = cpu.a
           /\ cpu.flags = cpuObs.pre.flags
           /\ cpu.a = cpuObs.pre.a

\* A9 42 8D 00 20 at 0x8000: 2 + 4 cycles after the reset, mem[0x2000] = 0x42
C11_Witness ==
    /\ InsnDone(141)
    /\ InsnAt = 32770
    /\ cpuObs.cycles = 6 + 2 + 4
    /\ cpu.a = 66
    /\ ~cpu.flags.negative /\ ~cpu.flags.zero
    /\ mem[8192] = 66

\* the address a relative branch at InsnAt aims at
BranchTarget == WrapWord(InsnAt + 2 + AsSigned(Operand1) + 65536)

(***************************************************************************)
(* C12 as stated: BEQ +16 at 0x80FE with Z = 1 ends with IP = 0x8110 after *)
(* 4 cycles; with Z = 0 it ends with IP = 0x8100 after 2 cycles.           *)
(***************************************************************************)
C12_BranchFourCycles ==
    (InsnDone(240) /\ InsnAt = 33022 /\ Operand1 = 16) =>
        IF cpuObs.pre.flags.zero
        THEN cpu.instruction_pointer = 33040 /\ cpuObs.n = 4
        ELSE cpu.instruction_pointer = 33024 /\ cpuObs.n = 2

(***************************************************************************)
(* C12: a BEQ not taken ends at the next instruction after 2 cycles; taken *)
(* it ends at the target after 3 cycles, 4 when the target is on another   *)
(* page than the next instruction.  BEQ +16 at 0x80FE with Z = 1 ends with *)
(* IP = 0x8110 after 3 cycles: 0x8100 and 0x8110 are on one page.          *)
(***************************************************************************)
C12_BranchCycles ==
    /\ InsnDone(240) =>
           IF cpuObs.pre.flags.zero
           THEN /\ cpu.instruction_pointer = BranchTarget
                /\ cpuObs.n = IF Hi(BranchTarget) = Hi(WrapWord(InsnAt + 2)) THEN 3 ELSE 4
           ELSE /\ cpu.instruction_pointer = WrapWord(InsnAt + 2)
                /\ cpuObs.n = 2
    /\ (InsnDone(240) /\ InsnAt = 33022 /\ Operand1 = 16 /\ cpuObs.pre.flags.zero) =>
           (cpu.instruction_pointer = 33040 /\ cpuObs.n = 3)

\* the taken BEQ +16 at 0x80FE has ended at 0x8110
C12_Witness ==
    /\ InsnDone(240)
    /\ InsnAt = 33022
    /\ cpuObs.pre.flags.zero
    /\ cpu.instruction_pointer = 33040
    /\ cpuObs.n = 3

\* the pointer of a JMP (ptr)
IndirectPointer == Word(Operand1, Operand2)

(***************************************************************************)
(* C13: JMP (ptr) with pointer low byte 0xFF reads the target high byte    *)
(* from ptr & 0xFF00 on Mos6502, Mos6507 and Ricoh2A0x, and from ptr + 1   *)
(* after one more cycle on Wdc65C02; 6C FF 02 with 0x34 at 0x02FF, 0x12 at *)
(* 0x0200 and 0x78 at 0x0300 ends at 0x1234, on Wdc65C02 at 0x7834.        *)
(***************************************************************************)
C13_IndirectJumpPageWrap ==
    (InsnDone(108) /\ Lo(IndirectPointer) = 255) =>
        IF cpu.kind = "Wdc65C02"
        THEN /\ cpu.instruction_pointer =
                    Word(MemRead(mem, IndirectPointer),
                         MemRead(mem, WrapWord(IndirectPointer + 1)))
             /\ cpuObs.n = 6
             /\ IndirectPointer = 767 => cpu.instruction_pointer = 30772
        ELSE /\ cpu.instruction_pointer =
                    Word(MemRead(mem, IndirectPointer),
                         MemRead(mem, IndirectPointer - 255))
             /\ cpuObs.n = 5
             /\ IndirectPointer = 767 => cpu.instruction_pointer = 4660

\* JMP ($02FF) has ended at 0x7834 on a Wdc65C02
C13_Witness ==
    /\ InsnDone(108)
    /\ IndirectPointer = 767
    /\ cpu.kind = "Wdc65C02"
    /\ cpu.instruction_pointer = 30772

\* the interrupt sequence the last poll started has just executed its last cycle
NmiDone == cpuObs.of = "nmi" /\ cpuObs.done

\* the address in the stack page a stack register value stands for
StackAddress(stack) == STACK_BASE_ADDRESS + WrapByte(stack + 256)

\* what the interrupt sequence leaves: the return address and the flags on
\* the stack, the stack register three lower, the vector in the instruction pointer
Entered(vector) ==
    /\ MemRead(mem, StackAddress(cpuObs.pre.stack)) = Hi(cpuObs.pre.instruction_pointer)
    /\ MemRead(mem, StackAddress(cpuObs.pre.stack - 1)) = Lo(cpuObs.pre.instruction_pointer)
    /\ MemRead(mem, StackAddress(cpuObs.pre.stack - 2)) = to_byte(cpuObs.pre.flags, FALSE)
    /\ ~BitSet(MemRead(mem, StackAddress(cpuObs.pre.stack - 2)), 4)
    /\ cpu.stack = WrapByte(cpuObs.pre.stack - 3 + 256)
    /\ cpu.instruction_pointer = Word(MemRead(mem, vector), MemRead(mem, vector + 1))

(***************************************************************************)
(* C14 as stated: after an NMI falling edge the poll at the next           *)
(* instruction boundary appends the seven-cycle interrupt sequence; within *)
(* 7 cycles the stack holds PC high, PC low and the flags with bit 4       *)
(* clear, the stack register is S - 3 and IP is the word at 0xFFFA.        *)
(***************************************************************************)
C14_SevenCycleInterruptSequence ==
    /\ (cpuObs.taken /\ ~cpuObs.frozen) => Len(cpu.instruction_queue) = 7
    /\ (cpuObs.polled /\ cpuObs.edge) => cpuObs.taken
    /\ NmiDone => (cpuObs.n <= 7 /\ Entered(NMI_VECTOR))

\* what does hold of the NMI entry: six cycles, then the stack and IP as stated
C14_SixCyclesEnter ==
    /\ (cpuObs.taken /\ ~cpuObs.frozen) => cpu.instruction_queue = InterruptSequence(NMI_VECTOR)
    /\ (cpuObs.polled /\ cpuObs.edge) => cpuObs.taken
    /\ NmiDone => (cpuObs.n = 6 /\ Entered(NMI_VECTOR))

\* an NMI taken after the reset has been entered: IP = 0x9000, three bytes pushed
C14_Witness ==
    /\ NmiDone
    /\ cpuObs.pre.stack = 253
    /\ cpu.stack = 250
    /\ cpu.instruction_pointer = 36864
    /\ mem[509] = Hi(cpuObs.pre.instruction_pointer)

(***************************************************************************)
(* C15 as stated: interrupt_required() returns true exactly once per       *)
(* high-to-low transition of the NMI line, for every interleaving of the   *)
(* stores with the polls: once no edge is latched or about to be, there    *)
(* have been as many true returns as transitions.                          *)
(***************************************************************************)
C15_OncePerTransition ==
    /\ cpuObs.served <= cpuObs.edges
    /\ (~nmi.falling_edge_occured /\ ~storing /\ supports_interrupts(cpu.kind)) =>
           cpuObs.served = cpuObs.edges

(***************************************************************************)
(* C15: interrupt_required() returns true at most once per high-to-low     *)
(* transition, and after every transition the latch is set, or about to    *)
(* be, until a poll returns true: no transition goes unreported, but       *)
(* transitions with no poll between them are reported once.                *)
(***************************************************************************)
C15_AtMostOncePerTransition ==
    /\ cpuObs.served <= cpuObs.edges
    /\ (nmi.falling_edge_occured \/ storing) => cpuObs.served < cpuObs.edges
    /\ cpuObs.owed => (nmi.falling_edge_occured \/ storing)
    /\ (cpuObs.edges > 0 /\ ~cpuObs.owed) => cpuObs.served >= 1

\* two transitions, one poll that returned true, nothing pending
C15_Witness ==
    /\ cpuObs.edges = 2
    /\ cpuObs.served = 1
    /\ ~nmi.falling_edge_occured /\ ~storing
    /\ ~cpuObs.owed

(***************************************************************************)
(* C16: the latch is set only by a store that changed current_state from   *)
(* true to false; store(false) on a low line, store(true) and the initial  *)
(* state set nothing; interrupt_required() returns true only on a set      *)
(* latch and clears it, so it is false until the next such change.         *)
(***************************************************************************)
C16_LatchOnlyOnFallingEdge ==
    [][/\ (storing' /\ ~storing) => (nmi.current_state /\ ~nmi'.current_state)
       /\ (nmi'.falling_edge_occured /\ ~nmi.falling_edge_occured) => (storing /\ ~storing')
       /\ (cpuObs'.served > cpuObs.served) =>
              (nmi.falling_edge_occured /\ ~nmi'.falling_edge_occured)
       /\ (cpuObs.cycles = 0 /\ cpuObs.edges = 0) => ~nmi.falling_edge_occured
       /\ nmi'.falling_edge_occured => cpuObs'.served < cpuObs'.edges]_vars

\* the line went low once and stayed low: one poll returned true, a later one false
C16_Witness ==
    /\ cpuObs.edges = 1
    /\ cpuObs.served = 1
    /\ ~nmi.current_state
    /\ cpuObs.polled /\ ~cpuObs.taken
    /\ ~nmi.falling_edge_occured

\* some cycle in the queue reads the IRQ vector
IrqSequenceQueued ==
    \E i \in 1..Len(cpu.instruction_queue) :
        cpu.instruction_queue[i].phi1 = SetAddressBus(FromConstant(IRQ_VECTOR))

(***************************************************************************)
(* C17 as stated: at an instruction boundary on a kind that supports       *)
(* interrupts, a low IRQ line with flag I clear makes the CPU append the   *)
(* interrupt sequence for IRQ_VECTOR, unless an NMI edge is pending, which *)
(* is taken first.                                                         *)
(***************************************************************************)
C17_IrqTakenWhenEnabled ==
    (cpuObs.polled /\ ~cpuObs.frozen /\ cpuObs.irqLow /\ ~cpu.flags.interrupt_disable) =>
        IF cpuObs.edge
        THEN cpu.instruction_queue = InterruptSequence(NMI_VECTOR)
        ELSE cpu.instruction_queue = InterruptSequence(IRQ_VECTOR)

(***************************************************************************)
(* C18: no IRQ interrupt sequence is started while flag I is set, whatever *)
(* the IRQ line; an NMI edge latched at an instruction boundary is taken   *)
(* there even when flag I is set.                                          *)
(***************************************************************************)
C18_MaskedIrqUnmaskedNmi ==
    /\ cpu.flags.interrupt_disable => ~IrqSequenceQueued
    /\ (/\ cpuObs.done /\ supports_interrupts(cpu.kind)
        /\ ~cpuObs.frozen /\ cpuObs.edge /\ cpu.flags.interrupt_disable) =>
           (cpuObs.taken /\ cpu.instruction_queue = InterruptSequence(NMI_VECTOR))

\* an NMI taken with flag I set and the IRQ line low
C18_Witness ==
    /\ cpuObs.done /\ supports_interrupts(cpu.kind)
    /\ ~cpuObs.frozen /\ cpuObs.edge
    /\ cpuObs.irqLow
    /\ cpu.flags.interrupt_disable
    /\ cpu.instruction_queue = InterruptSequence(NMI_VECTOR)

\* the effective address of an abs,X instruction leaves the page of its base
IndexCrosses == Hi(WrapWord(Word(Operand1, Operand2) + cpuObs.pre.x)) # Operand2

\* the 6502 reference count of the instruction that has just ended
PublishedCycles ==
    CASE cpuObs.opcode \in {2, 88, 162, 169, 234} -> 2
      [] cpuObs.opcode = 76 -> 3
      [] cpuObs.opcode \in {141, 173} -> 4
      [] cpuObs.opcode = 157 -> 5
      [] cpuObs.opcode \in {14, 32, 46, 64, 78, 96, 110, 206, 238} -> 6
      [] cpuObs.opcode = 189 -> IF IndexCrosses THEN 5 ELSE 4
      [] cpuObs.opcode = 108 -> IF cpu.kind = "Wdc65C02" THEN 6 ELSE 5
      [] cpuObs.opcode = 208 ->
             IF cpuObs.pre.flags.zero THEN 2
             ELSE IF Hi(BranchTarget) = Hi(WrapWord(InsnAt + 2)) THEN 3 ELSE 4
      [] cpuObs.opcode = 240 ->
             IF ~cpuObs.pre.flags.zero THEN 2
             ELSE IF Hi(BranchTarget) = Hi(WrapWord(InsnAt + 2)) THEN 3 ELSE 4

(***************************************************************************)
(* C19 as stated: every instruction takes the published number of cycles   *)
(* from its opcode fetch to its last cycle, STA abs,X = 5 whether or not   *)
(* the index crosses a page.                                               *)
(***************************************************************************)
C19_PublishedCycleCounts ==
    (cpuObs.of = "insn" /\ cpuObs.done) => cpuObs.n = PublishedCycles

\* the quantum the step takes is one of the processor's
SynchronizeStep == cpu' # cpu \/ cpuObs'.cycles # cpuObs.cycles

\* the registers phase 2 and the poll could write
Registers(c) == <<c.a, c.x, c.y, c.flags, c.stack, c.instruction_pointer, c.operand>>

(***************************************************************************)
(* C20 as stated: with rdy deasserted a read cycle is put back at the      *)
(* front of the queue, none of its phase-2 steps run and nothing is        *)
(* polled; the same cycle is the next one executed; a write cycle          *)
(* executes whatever rdy is.                                               *)
(***************************************************************************)
C20_FrozenReadIsRetried ==
    [][SynchronizeStep =>
          /\ (~rdy /\ CurrentCycle(cpu).bus_mode = "Read" /\ ~cpuObs.frozen) =>
                 /\ cpu'.instruction_queue =
                        <<CurrentCycle(cpu)>> \o PopFront(cpu).instruction_queue
                 /\ Registers(cpu') = Registers(cpu)
                 /\ nmi' = nmi /\ mem' = mem
                 /\ cpuObs'.cycles = cpuObs.cycles
          /\ cpuObs.frozen =>
                 /\ CurrentCycle(cpu) = cpuObs.cycle
                 /\ ~cpu'.crashed
                 /\ rdy => cpuObs'.cycles = cpuObs.cycles + 1
          /\ CurrentCycle(cpu).bus_mode = "Write" => cpuObs'.cycles = cpuObs.cycles + 1]_vars

(***************************************************************************)
(* C21 as stated: no byte the guest can have fetched as an opcode makes    *)
(* synchronize panic: after every opcode fetch, BRK and the Jam encodings  *)
(* included, the processor is still running.                               *)
(***************************************************************************)
C21_NoOpcodeCrashesHost ==
    (cpuObs.cycle = FetchCycle /\ ~cpuObs.frozen) => ~cpu.crashed

\* the processor after phase 1 of the cycle this quantum executes
Addressed == ApplyPhi1(PopFront(cpu), CurrentCycle(cpu).phi1)

\* the processor after a quantum whose phase 2 found data on the bus
ExecutedWith(data) ==
    LET stepped == RunPhi2([Addressed EXCEPT !.bus.data = data], CurrentCycle(cpu).phi2)
    IN  IF PollsNmi(stepped) /\ nmi.falling_edge_occured
        THEN [stepped EXCEPT !.instruction_queue = InterruptSequence(NMI_VECTOR)]
        ELSE stepped

(***************************************************************************)
(* C22: a read cycle at an unmapped address runs its phase-2 steps with    *)
(* bus.data = 0; a write cycle at an unmapped address writes nothing;      *)
(* either way the quantum counts as one cycle and leaves the queue a       *)
(* mapped access with the same data would leave.                           *)
(***************************************************************************)
C22_UnmappedAccessNotFatal ==
    [][(SynchronizeStep /\ ~Addressed.crashed) =>
          /\ (/\ CurrentCycle(cpu).bus_mode = "Read" /\ rdy
              /\ Addressed.bus.address \notin DOMAIN mem) =>
                 /\ cpu' = ExecutedWith(0)
                 /\ mem' = mem
                 /\ cpuObs'.cycles = cpuObs.cycles + 1
          /\ (/\ CurrentCycle(cpu).bus_mode = "Write"
              /\ cpu'.bus.address \notin DOMAIN mem) =>
                 /\ cpu' = ExecutedWith(Addressed.bus.data)
                 /\ ~cpu'.crashed
                 /\ mem' = mem
                 /\ cpuObs'.cycles = cpuObs.cycles + 1]_vars

\* LDA $2001,X has read the unmapped 0x2000 and STA $2000,X has written the unmapped 0x20FF
C22_Witness ==
    /\ InsnDone(157)
    /\ cpuObs.cycle.bus_mode = "Write"
    /\ cpu.bus.address = 8447
    /\ {8192, 8447} \cap DOMAIN mem = {}
    /\ cpu.a = 119
    /\ ~cpu.crashed

\* the entries of a page slot, in slot order
PageEntries(page) ==
    CASE page.t = "Single" -> <<page.entry>>
      [] page.t = "Multi" -> page.entries
      [] OTHER -> <<>>

\* the slots <<page, entry index>> of one page whose entry intersects the range, ascending
SlotsOfPage(page, access_range) ==
    LET entries == PageEntries(computed_table[page])
    IN  SelectSeq([i \in 1..Len(entries) |-> <<page, i - 1>>],
                  LAMBDA slot : Intersects(access_range, entries[slot[2] + 1].range))

\* the slots of pages first..last whose entry intersects the range, ascending
RECURSIVE SlotsOfPages(_, _, _)
SlotsOfPages(first, last, access_range) ==
    IF first > last THEN <<>>
    ELSE SlotsOfPage(first, access_range) \o SlotsOfPages(first + 1, last, access_range)

\* what the iterator is to yield: the slots of the pages the access range touches
ExpectedSlots ==
    SlotsOfPages(iterator.access_range.start \div PAGE_SIZE,
                 iterator.access_range.end \div PAGE_SIZE, iterator.access_range)

\* s is the first Len(s) elements of t
IsPrefix(s, t) == Len(s) <= Len(t) /\ SubSeq(t, 1, Len(s)) = s

(***************************************************************************)
(* C24: overlapping(range) yields exactly the (page, entry) slots of the   *)
(* pages range.start / PAGE_SIZE ..= range.end / PAGE_SIZE whose entry     *)
(* intersects the range, each once, in ascending order (a Single page at   *)
(* most one item, an empty page none), every item naming the range and     *)
(* the target of its entry; after a None it returns None again.            *)
(***************************************************************************)
C24_OverlappingYieldsIntersecting ==
    iterator # NoIterator =>
        /\ IsPrefix(iterObs.yielded, ExpectedSlots)
        /\ iterObs.nones > 0 => iterObs.yielded = ExpectedSlots
        /\ ~iterObs.late
        /\ \A i \in 1..Len(iterObs.items) :
               LET slot == iterObs.yielded[i]
               IN  iterObs.items[i] =
                       Item(PageEntries(computed_table[slot[1]])[slot[2] + 1])
        /\ \A page \in Pages :
               Cardinality({i \in 1..Len(iterObs.yielded) : iterObs.yielded[i][1] = page})
                   <= Len(PageEntries(computed_table[page]))

\* a range over two pages: the Multi page yields the second of its two entries,
\* which reaches into the Single page and is yielded there again, then None twice
C24_Witness ==
    /\ iterator # NoIterator
    /\ iterator.access_range = RangeInclusive(3, 4)
    /\ computed_table[0].t = "None"
    /\ computed_table[1].t = "Multi"
    /\ computed_table[2].t = "Single"
    /\ iterObs.yielded = <<<<1, 1>>, <<2, 0>>>>
    /\ iterObs.nones = 2

(***************************************************************************)
(* C23 as stated: whatever the table (pages with overlapping entries       *)
(* included) and whatever was read through the cache before, a read made   *)
(* with the cache selects the target and returns the value of the same     *)
(* read made with no cache.                                                *)
(***************************************************************************)
C23_CachedReadEqualsUncached ==
    readObs.reads > 0 => readObs.cached = readObs.plain

\* the component has been synchronized through exactly one second
OneSecond == audio.quanta = audio.processor_frequency

(***************************************************************************)
(* C25 as stated: with processor frequency 500 Hz and the timer set to 60  *)
(* at t = 0, after exactly 1 second (500 quanta) timer = 0 and exactly     *)
(* 8000 samples have been pushed into the ring buffer.                     *)
(***************************************************************************)
C25_OneSecondOfAudio ==
    (audio.processor_frequency = 500 /\ audio.quanta = 500 /\ audio.set = 60) =>
        (audio.timer = 0 /\ audio.buffer = 8000)

(***************************************************************************)
(* C26 as stated: load_snapshot with a version the component does not      *)
(* support (any but 0) returns an error to the caller, without a panic,    *)
(* and leaves the component as it was, for Mos6502 and for Chip8Audio.     *)
(***************************************************************************)
C26_UnsupportedVersionIsAnError ==
    (snapObs.component # "none" /\ snapObs.version # 0) =>
        (snapObs.result = "Err" /\ snapObs.kept)

\* the quantum's cycle is the front of the queue, or the opcode fetch when the queue is empty
TakesFrontOrFetch ==
    CurrentCycle(cpu) =
        IF cpu.instruction_queue # <<>> THEN Head(cpu.instruction_queue) ELSE FetchCycle

\* one bus transaction: a read leaves memory alone, a write stores bus.data at bus.address
OneBusTransaction ==
    IF CurrentCycle(cpu).bus_mode = "Read"
    THEN mem' = mem
    ELSE mem' = MemWrite(mem, cpu'.bus.address, cpu'.bus.data)

\* the synthesized fetch read at IP, moved IP on by one and queued the instruction's cycles
FetchDecodes ==
    /\ cpu'.bus.address = cpu.instruction_pointer
    /\ cpu'.instruction_pointer = WrapWord(cpu.instruction_pointer + 1)
    /\ cpuObs'.opcode = MemRead(mem, cpu.instruction_pointer)
    /\ cpu'.instruction_queue # <<>>

(***************************************************************************)
(* C27 as stated: every quantum the processor receives executes exactly    *)
(* one cycle and makes exactly one bus transaction, a read for a Read      *)
(* cycle and a write for a Write cycle; the cycle is the front of the      *)
(* queue or, only when the queue is empty, the synthesized opcode fetch,   *)
(* which reads at IP, increments IP and appends the decoded instruction's  *)
(* cycles.                                                                 *)
(***************************************************************************)
C27_OneCyclePerQuantum ==
    [][SynchronizeStep =>
          /\ ~cpu'.crashed
          /\ TakesFrontOrFetch
          /\ OneBusTransaction
          /\ (cpu.instruction_queue = <<>> /\ rdy) => FetchDecodes]_vars

\* some cycle in the queue c reads the NMI vector
NmiSequenceQueued(c) ==
    \E i \in 1..Len(c.instruction_queue) :
        c.instruction_queue[i].phi1 = SetAddressBus(FromConstant(NMI_VECTOR))

\* the step consumes the NMI latch or starts an interrupt sequence
PollTakes ==
    \/ nmi.falling_edge_occured /\ ~nmi'.falling_edge_occured
    \/ cpuObs'.served > cpuObs.served
    \/ ~NmiSequenceQueued(cpu) /\ NmiSequenceQueued(cpu')

(***************************************************************************)
(* C28: the interrupt poll happens only in a quantum that executed its     *)
(* cycle (not one frozen by rdy), only when that cycle left the queue      *)
(* empty, and only on a kind other than Mos6507: a Mos6507 never starts an *)
(* interrupt sequence nor consumes the NMI latch, and on the other kinds   *)
(* an edge latched while cycles are queued stays latched until the queue   *)
(* has drained.                                                            *)
(***************************************************************************)
C28_PollOnlyAtBoundary ==
    [][/\ PollTakes =>
              /\ cpu.kind # "Mos6507"
              /\ rdy \/ CurrentCycle(cpu).bus_mode = "Write"
              /\ cpuObs'.cycles = cpuObs.cycles + 1
              /\ RunPhi2(BusRead(Addressed, CurrentCycle(cpu)),
                         CurrentCycle(cpu).phi2).instruction_queue = <<>>
              /\ cpu'.instruction_queue = InterruptSequence(NMI_VECTOR)
       /\ (/\ nmi.falling_edge_occured
           /\ \/ cpu.kind = "Mos6507"
              \/ cpu'.instruction_queue # <<>> /\ ~NmiSequenceQueued(cpu')) =>
              nmi'.falling_edge_occured]_vars

\* a Mos6507 at an instruction boundary with the edge still latched, and nothing taken
C28_Witness ==
    /\ cpu.kind = "Mos6507"
    /\ cpuObs.done /\ ~cpuObs.frozen
    /\ cpuObs.of = "insn"
    /\ cpuObs.edge
    /\ nmi.falling_edge_occured
    /\ cpuObs.served = 0
    /\ ~NmiSequenceQueued(cpu)

(***************************************************************************)
(* C29: AddToPointerLikeRegister writes the new low byte and keeps the     *)
(* old high byte; when the 16-bit sum lies on another page and the         *)
(* adjustment is asked for, one AddCarryToPointerLikeRegister cycle is at  *)
(* the front of the queue (carry -1 for a backward crossing) and after it  *)
(* has run the register is the full sum modulo 2^16; otherwise no cycle    *)
(* is added and the register stays wrapped inside its page.                *)
(***************************************************************************)
\* the value the step of stepObs adds, as the interpretation reads it
Addend ==
    LET b == stepObs.before
        source == stepObs.step.source
        value == CASE source.t = "Register" -> b[source.register]
                   [] source.t = "Constant" -> source.value
                   [] source.t = "Operand" -> b.operand
    IN  IF stepObs.step.interpretation = "Signed" /\ value >= 128 THEN value - 256 ELSE value

\* the register before the step, and the full 16-bit sum
Before == PointerValue(stepObs.before, stepObs.step.destination)

FullSum == (Before + Addend + 65536) % 65536

\* the sum with the high byte of the register before the step
StaleSum == (Before \div 256) * 256 + (FullSum % 256)

Crosses == (FullSum \div 256) # (Before \div 256)

\* the step and the cycle after it touch no other pointer
OthersKept ==
    /\ \A register \in PointerLikeRegisters \ {stepObs.step.destination} :
           PointerValue(cpu, register) = PointerValue(stepObs.before, register)
    /\ Len(cpu.effective_address) = Len(stepObs.before.effective_address)
    /\ ~cpu.crashed

C29_AddToPointerLikeRegister ==
    LET register == stepObs.step.destination
        adjusted == Crosses /\ stepObs.step.insert_adjustment_cycle_upon_carry
        pushed == Cycle("Read", NoPhi1,
                        <<AddCarryToPointerLikeRegister(register,
                                                        IF Addend < 0 THEN -1 ELSE 1)>>)
    IN  /\ stepObs.stage = "added" =>
               /\ OthersKept
               /\ PointerValue(cpu, register) = StaleSum
               /\ cpu.instruction_queue =
                      IF adjusted THEN <<pushed>> \o stepObs.before.instruction_queue
                      ELSE stepObs.before.instruction_queue
        /\ (stepObs.stage = "next" /\ stepObs.mode = "pointer") =>
               /\ OthersKept
               /\ PointerValue(cpu, register) = IF adjusted THEN FullSum ELSE StaleSum
               /\ cpu.instruction_queue =
                      IF adjusted THEN stepObs.before.instruction_queue
                      ELSE Tail(stepObs.before.instruction_queue)

\* a branch backwards over a page start, put right by the cycle after it
C29_Witness ==
    /\ stepObs.stage = "next"
    /\ stepObs.step = AddToPointerLikeRegister(TRUE, "Signed", AddOperand, "InstructionPointer")
    /\ stepObs.before.instruction_pointer = 256
    /\ stepObs.before.operand = 240
    /\ cpu.instruction_pointer = 240

(***************************************************************************)
(* C30: Add sets A to (A + op + c) mod 256, where op is the operand or     *)
(* its complement, C to the carry out of that sum, V when A and op had     *)
(* the same sign and the result has the other, N to bit 7 of the result    *)
(* and Z when the result is 0.                                             *)
(***************************************************************************)
C30_AddSetsAccumulatorAndFlags ==
    stepObs.stage = "summed" =>
        LET b == stepObs.before
            op == IF stepObs.step.invert_operand THEN 255 - b.operand ELSE b.operand
            sum == b.a + op + (IF b.flags.carry THEN 1 ELSE 0)
            result == sum % 256
        IN  /\ ~cpu.crashed
            /\ cpu.a = result
            /\ cpu.flags.carry = (sum > 255)
            /\ cpu.flags.overflow = ((b.a >= 128) = (op >= 128) /\ (b.a >= 128) # (result >= 128))
            /\ cpu.flags.negative = (result >= 128)
            /\ cpu.flags.zero = (result = 0)

\* 0 - 0 with the carry set: the carry comes out of adding the carry in
C30_Witness ==
    /\ stepObs.stage = "summed"
    /\ stepObs.step.invert_operand
    /\ stepObs.before.a = 0
    /\ stepObs.before.operand = 0
    /\ stepObs.before.flags.carry
    /\ cpu.a = 0
    /\ cpu.flags.carry
    /\ cpu.flags.zero

(***************************************************************************)
(* C31: a read-modify-write instruction on memory ends with three cycles   *)
(* on its effective address: a read of the old value, a write of the old   *)
(* value, a write of the modified value; nothing else is written.          *)
(***************************************************************************)
\* ASL, ROL, LSR, ROR, DEC, INC with an absolute operand
ModifyOpcodes == {14, 46, 78, 110, 206, 238}

\* the byte the instruction makes of old, by the 6502 reference
Modified(opcode, old, carry) ==
    CASE opcode = 14 -> (old * 2) % 256
      [] opcode = 46 -> ((old * 2) % 256) + (IF carry THEN 1 ELSE 0)
      [] opcode = 78 -> old \div 2
      [] opcode = 110 -> (old \div 2) + (IF carry THEN 128 ELSE 0)
      [] opcode = 206 -> (old + 255) % 256
      [] opcode = 238 -> (old + 1) % 256

C31_ReadModifyWriteTail ==
    [][(cpuObs'.cycles = cpuObs.cycles + 1 /\ cpuObs'.of = "insn"
            /\ cpuObs'.opcode \in ModifyOpcodes) =>
          LET n == cpuObs'.n
              at == cpuObs'.pre.instruction_pointer
              address == Word(MemRead(mem, WrapWord(at + 1)), MemRead(mem, WrapWord(at + 2)))
              old == MemRead(mem, address)
          IN  /\ ~cpu'.crashed
              /\ cpuObs'.done = (n = 6)
              /\ n < 4 => mem' = mem
              /\ n = 4 => /\ cpuObs'.cycle.bus_mode = "Read"
                          /\ cpu'.bus.address = address
                          /\ cpu'.bus.data = old
                          /\ mem' = mem
              /\ n = 5 => /\ cpuObs'.cycle.bus_mode = "Write"
                          /\ cpu'.bus.address = address
                          /\ cpu'.bus.data = old
                          /\ mem' = mem
              /\ n = 6 => /\ cpuObs'.cycle.bus_mode = "Write"
                          /\ cpu'.bus.address = address
                          /\ mem' = [mem EXCEPT ![address] =
                                        Modified(cpuObs'.opcode, old, cpu.flags.carry)]]_vars

\* DEC $2000 made 0xFF of 0, and ROR $2000 has just made 0x7F of it
C31_Witness ==
    /\ InsnDone(110)
    /\ cpuObs.n = 6
    /\ mem[8192] = 127
    /\ cpu.flags.carry
    /\ ~cpu.flags.negative

(***************************************************************************)
(* C32: in every quantum of Chip8Audio samples are pushed only while       *)
(* timer > 0; the timer goes down by one per accumulated 1/60 s and stops  *)
(* at 0; with timer = 0 a quantum pushes nothing and leaves the timer at   *)
(* 0; the ring buffer never holds more than 80000 samples.                 *)
(***************************************************************************)
\* the step is a quantum of the component
AudioQuantum == audio'.quanta = audio.quanta + 1

\* k periods of 1/60 s
TimerPeriods(timer_period, k) == Period(k * timer_period.whole, k * timer_period.ulps)

\* the 1/60 s periods that have run out by the end of the quantum
Elapsed ==
    LET timer_period == recip(TimerFrequency, audio.processor_frequency)
        total == PeriodAdd(audio.timer_accumulator,
                           recip(audio.processor_frequency, audio.processor_frequency))
    IN  CHOOSE k \in 0..((TimerFrequency \div audio.processor_frequency) + 1) :
            /\ PeriodGe(total, TimerPeriods(timer_period, k))
            /\ ~PeriodGe(total, TimerPeriods(timer_period, k + 1))

C32_SamplesOnlyWhileTimerRuns ==
    [][/\ audio'.buffer <= BufferCapacity
       /\ AudioQuantum =>
             LET elapsed == Elapsed
             IN  /\ audio'.timer = (IF audio.timer >= elapsed THEN audio.timer - elapsed ELSE 0)
                 /\ audio'.buffer # audio.buffer => audio.timer > 0
                 /\ audio.timer > 0 =>
                        audio'.buffer =
                            Min(audio.buffer
                                    + (INTERNAL_SAMPLE_RATE \div audio.processor_frequency),
                                BufferCapacity)
                 /\ audio.timer = 0 => (audio'.timer = 0 /\ audio'.buffer = audio.buffer)]_vars

\* more than ten seconds of sound: the buffer is full and the timer still runs
C32_Witness ==
    /\ audio.buffer = BufferCapacity
    /\ audio.timer > 0
    /\ audio.quanta > 10 * audio.processor_frequency
    /\ ~audio.crashed

(***************************************************************************)
(* C33 as stated: freezing is transparent.  A read cycle attempted with    *)
(* rdy deasserted does not crash, and executing it afterwards with rdy     *)
(* asserted does not crash and leaves A, X, Y, the flags, the stack, the   *)
(* instruction pointer, the operand, effective_address and the rest of     *)
(* the queue as executing it at once would have.                           *)
(***************************************************************************)
\* the processor c after it executes the cycle at the front of its queue with rdy asserted
ExecutedOnce(c) ==
    LET current_cycle == CurrentCycle(c)
    IN  RunPhi2(BusRead(ApplyPhi1(PopFront(c), current_cycle.phi1), current_cycle),
                current_cycle.phi2)

\* what freezing must not change
Untouched(c) ==
    <<c.crashed, Registers(c), c.effective_address, c.instruction_queue>>

C33_FreezingIsTransparent ==
    [][(SynchronizeStep /\ ~rdy /\ ~cpu.crashed /\ CurrentCycle(cpu).bus_mode = "Read") =>
          /\ ~cpu'.crashed
          /\ ~ExecutedOnce(cpu').crashed
          /\ Untouched(ExecutedOnce(cpu')) = Untouched(ExecutedOnce(cpu))]_vars

(***************************************************************************)
(* C34: every timestamp QuantaIterator::next returns is at or before the   *)
(* trigger time of the earliest pending event, and the budget of an        *)
(* iterator never increases while it is in use.                            *)
(***************************************************************************)
C34_NeverPastPendingEvent ==
    [][/\ (pc = "iter" /\ pc' = "iter") => iter'.budget <= iter.budget
       /\ (pc = "iter" /\ obs'.taken = obs.taken + 1) =>
              /\ obs'.last = updated_timestamp'[driven[cur]]
              /\ obs'.last <= target_timestamp
              /\ next_event # None => obs'.last <= next_event]_vars

\* an event pushed while the iterator was in use cut the budget short, and the
\* last timestamp handed out is the trigger time of that event
C34_Witness ==
    /\ pc = "iter"
    /\ obs.preempted
    /\ obs.taken > 1
    /\ next_event # None
    /\ obs.last = next_event
    /\ next_event < target_timestamp
    /\ iter.budget = 0

(***************************************************************************)
(* C35: time not consumed is carried over.  After a run with no pending    *)
(* event, a component that was given no execution limit lags behind the    *)
(* target by less than its period, and has received floor(T / p) quanta    *)
(* in all, T being the total of the runs.                                  *)
(***************************************************************************)
C35_LagIsCarriedOver ==
    (AtRunEnd /\ obs.calm) =>
        \A c \in Range(driven) :
            obs.full[c] =>
                /\ 0 <= target_timestamp - updated_timestamp[c]
                /\ target_timestamp - updated_timestamp[c] < PeriodOf(c)
                /\ updated_timestamp[c] = (current_driven_time \div PeriodOf(c)) * PeriodOf(c)

\* two runs of one time unit each: the first gives the slow component nothing,
\* the second gives it the quantum the two add up to
C35_Witness ==
    /\ AtRunEnd
    /\ obs.calm
    /\ "apu" \in Range(driven)
    /\ obs.full["apu"]
    /\ obs.delta = 1
    /\ obs.before["apu"] = 0
    /\ current_driven_time = 2
    /\ updated_timestamp["apu"] = 2

(***************************************************************************)
(* C36: instructions are atomic.  After the opcode fetch of an instruction *)
(* the queue is not empty, and until every cycle of the instruction has    *)
(* executed, adjustment cycles included, the cycles executed are its own:  *)
(* no opcode fetch and no cycle of an interrupt sequence comes in between. *)
(***************************************************************************)
C36_InstructionsAreAtomic ==
    [][cpuObs'.cycles = cpuObs.cycles + 1 =>
          /\ (cpuObs'.cycle = FetchCycle /\ ~cpu'.crashed) =>
                 /\ cpu'.instruction_queue # <<>>
                 /\ ~cpuObs'.done
                 /\ ~cpuObs'.taken
          /\ (cpuObs.of = "insn" /\ ~cpuObs.done) =>
                 /\ cpuObs'.cycle # FetchCycle
                 /\ ~cpuObs.taken
                 /\ cpuObs'.of = "insn"
                 /\ cpuObs'.opcode = cpuObs.opcode
                 /\ cpuObs'.n = cpuObs.n + 1
          /\ cpuObs'.taken => cpuObs'.done]_vars

\* LDA $2001,X with X = 0xFF: the adjustment cycle has executed with an NMI
\* edge latched, and the instruction still has its read to do
C36_Witness ==
    /\ cpuObs.of = "insn"
    /\ cpuObs.opcode = 189
    /\ cpuObs.cycle = Cycle("Read", NoPhi1,
                            <<AddCarryToPointerLikeRegister("EffectiveAddress", 1)>>)
    /\ nmi.falling_edge_occured
    /\ supports_interrupts(cpu.kind)
    /\ ~cpuObs.done
    /\ Len(cpu.instruction_queue) = 1

\* the byte of the stack page under a stack register
StackByte(stack) == MemRead(mem, STACK_BASE_ADDRESS + WrapByte(stack))

\* A, X, Y and the flags are those of the snapshot
RegistersOf(before) ==
    /\ cpu.a = before.a
    /\ cpu.x = before.x
    /\ cpu.y = before.y
    /\ cpu.flags = before.flags

(***************************************************************************)
(* C37: JSR followed by RTS is a round trip.  A JSR at P with stack        *)
(* register S takes 6 cycles, leaves the high byte of P+2 at 0x0100|S and  *)
(* the low byte at 0x0100|(S-1) and jumps to its operand; the RTS takes 6  *)
(* cycles and leaves IP = P+3 and the stack register S; neither changes    *)
(* the flags, A, X or Y.                                                   *)
(***************************************************************************)
C37_JsrRtsRoundTrip ==
    /\ InsnDone(32) =>
           /\ cpuObs.n = 6
           /\ cpuObs.pre = cpuObs.call
           /\ StackByte(cpuObs.pre.stack) = Hi(WrapWord(InsnAt + 2))
           /\ StackByte(cpuObs.pre.stack + 255) = Lo(WrapWord(InsnAt + 2))
           /\ cpu.instruction_pointer = Word(Operand1, Operand2)
           /\ cpu.stack = WrapByte(cpuObs.pre.stack + 254)
           /\ RegistersOf(cpuObs.pre)
    /\ InsnDone(96) =>
           /\ cpuObs.n = 6
           /\ cpu.instruction_pointer = WrapWord(cpuObs.call.instruction_pointer + 3)
           /\ cpu.stack = cpuObs.call.stack
           /\ RegistersOf(cpuObs.pre)
           /\ RegistersOf(cpuObs.call)

\* JSR $8010 at 0x8000 with S = 0xFD, and the RTS at 0x8010 has returned to 0x8003
C37_Witness ==
    /\ InsnDone(96)
    /\ cpuObs.call.instruction_pointer = 32768
    /\ cpuObs.call.stack = ResetStack
    /\ InsnAt = 32784
    /\ StackByte(ResetStack) = 128
    /\ StackByte(ResetStack + 255) = 2
    /\ cpu.instruction_pointer = 32771
    /\ cpu.stack = ResetStack

(***************************************************************************)
(* C38: interrupt entry followed by RTI is a round trip.  When an NMI is   *)
(* taken at an instruction boundary with instruction pointer P, flags F    *)
(* and stack register S, the RTI of the handler leaves IP = P, the six     *)
(* flags equal to F and the stack register equal to S.                     *)
(***************************************************************************)
C38_InterruptRtiRoundTrip ==
    (InsnDone(64) /\ cpuObs.open) =>
        /\ cpu.instruction_pointer = cpuObs.entry.instruction_pointer
        /\ cpu.flags = cpuObs.entry.flags
        /\ cpu.stack = cpuObs.entry.stack

\* the NMI was taken after LDA #0, with Z set and N clear; the handler set N and
\* cleared Z, and the RTI has returned to 0x8002 with the flags of the entry
C38_Witness ==
    /\ InsnDone(64)
    /\ cpuObs.open
    /\ cpuObs.served = 1
    /\ cpuObs.entry.instruction_pointer = 32770
    /\ cpuObs.entry.flags.zero
    /\ ~cpuObs.entry.flags.negative
    /\ cpuObs.entry.stack = ResetStack
    /\ cpu.a = 128
    /\ cpu.instruction_pointer = 32770
    /\ cpu.flags.zero
    /\ ~cpu.flags.negative
    /\ cpu.stack = ResetStack

\* the step is a call of interrupt_required(): the poll of an executed cycle
InterruptRequiredCalled == cpuObs'.cycles = cpuObs.cycles + 1 /\ cpuObs'.polled

(***************************************************************************)
(* C39: no NMI falling edge is lost when the store races with the poll.    *)
(* NmiFlag::store is two atomic steps, the swap of current_state and the   *)
(* store of the latch; interrupt_required() is one, the swap of the latch  *)
(* to false.  A call that falls between the two steps leaves the store to  *)
(* finish and the edge owed; the second step leaves the latch set; a call  *)
(* that finds the latch set returns true, and nothing else clears the      *)
(* latch: after every store that took the line from true to false the      *)
(* latch is set, or about to be, until a call returns true.                *)
(***************************************************************************)
C39_NoEdgeLostInRace ==
    [][/\ (InterruptRequiredCalled /\ storing) => (storing' /\ cpuObs'.owed)
       /\ (storing /\ ~storing') => (nmi'.falling_edge_occured /\ cpuObs'.owed)
       /\ (InterruptRequiredCalled /\ nmi.falling_edge_occured) =>
              (cpuObs'.taken /\ cpuObs'.served = cpuObs.served + 1)
       /\ (nmi.falling_edge_occured /\ ~nmi'.falling_edge_occured) =>
              (InterruptRequiredCalled /\ cpuObs'.taken)
       /\ (cpuObs'.owed /\ ~storing') => nmi'.falling_edge_occured
       /\ (nmi.current_state /\ ~nmi'.current_state) => (storing' /\ cpuObs'.owed)]_vars

\* the store of the second falling edge raced with a poll: the poll fell between
\* its two steps and returned true for the first edge, and the store has gone on
\* to set the latch for the second, which is still owed
C39_Witness ==
    /\ cpuObs.raced
    /\ cpuObs.edges = 2
    /\ cpuObs.served = 1
    /\ cpuObs.taken
    /\ cpuObs.owed
    /\ ~storing
    /\ nmi.falling_edge_occured

\* every cycle of the sequence holds at most Phi2Capacity steps
WithinCapacity(cycles) == \A cycle \in Range(cycles) : Len(cycle.phi2) <= Phi2Capacity

(***************************************************************************)
(* C40: every cycle ever constructed holds at most three phase-2 steps:    *)
(* the reset sequence, the interrupt sequence, the opcode fetch, the       *)
(* adjustment cycles, and the cycles of every documented opcode with each  *)
(* of its documented addressing modes, steps leeched onto the last cycle   *)
(* of the addressing mode included; no expansion overflows a cycle.  BRK   *)
(* stops at todo!() after the cycle of its addressing mode is queued.      *)
(***************************************************************************)
C40_CyclesHoldThreeSteps ==
    /\ WithinCapacity(cpu.instruction_queue)
    /\ WithinCapacity(ResetSequence)
    /\ WithinCapacity(InterruptSequence(NMI_VECTOR))
    /\ WithinCapacity(<<FetchCycle>>)
    /\ stepObs.stage = "decoded" =>
           /\ cpu.crashed <=> stepObs.instruction.opcode = "Brk"
           /\ cpu.instruction_queue # <<>>

\* ADC #imm: the two steps of the read are leeched onto the one cycle of the
\* addressing mode, which is then full
C40_Witness ==
    /\ stepObs.stage = "decoded"
    /\ stepObs.instruction = [opcode |-> "Adc", addressing_mode |-> "Immediate"]
    /\ ~cpu.crashed
    /\ Len(cpu.instruction_queue) = 1
    /\ cpu.instruction_queue[1].phi2 =
           <<IncrementInstructionPointer, Move(SrcData, DstOperand), Add(FALSE)>>

====
